---- MODULE Spec2Model ----
(***************************************************************************)
(* The spell stack runtime of eidos: the word table (word.rs), the typed   *)
(* value stack and its say/validate operations, the conduit replay and the *)
(* word buttons (game.rs), the active-spell registry and the world update  *)
(* (world.rs).                                                             *)
(***************************************************************************)
EXTENDS Integers, Sequences, FiniteSets, TLC

\* ------------------------------------------------------------------ bounds
\* the words held by the player's stack and active spells together
MaxWords == 3
\* the active spells of one NPC and kind
MaxNpcSpells == 2
\* the mana a person holds at most
MaxMana == 2

\* ------------------------------------------------------------- vocabulary
\* enum Word
Word ==
    { "Ti", "Tu", "Ta", "Te", "Seva", "Sevi", "Me", "Kova", "Kovi",
      "Le", "Po", "Lusa", "Mesi", "Ke", "Ma", "Sa", "Na", "Reso", "Solo",
      "Sila", "Vila", "Pa", "Pi", "No", "Mo", "Re", "Rovo" }

\* enum PersonId: the player and the NPCs of the world
Npcs == { "Npc1" }
PersonIds == { "Player" } \cup Npcs

\* enum VectorOutputFieldKind
VectorOutputFieldKind == { "Gravity", "Force", "Write" }

Fn(cat, name) == [cat |-> cat, name |-> name]

\* Word::function with Ma read as HeteroBinOp::Mul (operator rows exchanged)
function_ma_mul(word) ==
    CASE word = "Ti" -> Fn("Nullary", "One")
      [] word = "Tu" -> Fn("Nullary", "Two")
      [] word = "Ta" -> Fn("Nullary", "Five")
      [] word = "Te" -> Fn("Nullary", "Ten")
      [] word = "Kova" -> Fn("Nullary", "OneX")
      [] word = "Kovi" -> Fn("Nullary", "OneY")
      [] word = "Seva" -> Fn("Nullary", "X")
      [] word = "Sevi" -> Fn("Nullary", "Y")
      [] word = "Me" -> Fn("Nullary", "Filter")
      [] word = "Le" -> Fn("ReadField", "Elevation")
      [] word = "Po" -> Fn("ReadField", "Density")
      [] word = "Lusa" -> Fn("ReadField", "Light")
      [] word = "Mesi" -> Fn("ReadField", "Magic")
      [] word = "Ke" -> Fn("WriteField", "Gravity")
      [] word = "Ma" -> Fn("HeteroBinOp", "Mul")
      [] word = "Sa" -> Fn("HomoBinOp", "Add")
      [] word = "Na" -> Fn("MathUnOp", "Neg")
      [] word = "Solo" -> Fn("ToScalarOp", "Magnitude")
      [] word = "Reso" -> Fn("ScalarUnOp", "Reciprocal")
      [] word = "No" -> Fn("Combinator1", "Drop")
      [] word = "Mo" -> Fn("Combinator1", "Duplicate")
      [] word = "Re" -> Fn("Combinator2", "Swap")
      [] word = "Rovo" -> Fn("Combinator2", "Over")
      [] word = "Sila" -> Fn("Control", "XSlider")
      [] word = "Vila" -> Fn("Control", "YSlider")
      [] word = "Pa" -> Fn("Nullary", "TargetX")
      [] word = "Pi" -> Fn("Nullary", "TargetY")

\* Word::function
function(word) ==
    CASE word = "Ti" -> Fn("Nullary", "One")
      [] word = "Tu" -> Fn("Nullary", "Two")
      [] word = "Ta" -> Fn("Nullary", "Five")
      [] word = "Te" -> Fn("Nullary", "Ten")
      [] word = "Kova" -> Fn("Nullary", "OneX")
      [] word = "Kovi" -> Fn("Nullary", "OneY")
      [] word = "Seva" -> Fn("Nullary", "X")
      [] word = "Sevi" -> Fn("Nullary", "Y")
      [] word = "Me" -> Fn("Nullary", "Filter")
      [] word = "Le" -> Fn("ReadField", "Elevation")
      [] word = "Po" -> Fn("ReadField", "Density")
      [] word = "Lusa" -> Fn("ReadField", "Light")
      [] word = "Mesi" -> Fn("ReadField", "Magic")
      [] word = "Ke" -> Fn("WriteField", "Gravity")
      [] word = "Ma" -> Fn("HomoBinOp", "Add")
      [] word = "Sa" -> Fn("HeteroBinOp", "Mul")
      [] word = "Na" -> Fn("MathUnOp", "Neg")
      [] word = "Solo" -> Fn("ToScalarOp", "Magnitude")
      [] word = "Reso" -> Fn("ScalarUnOp", "Reciprocal")
      [] word = "No" -> Fn("Combinator1", "Drop")
      [] word = "Mo" -> Fn("Combinator1", "Duplicate")
      [] word = "Re" -> Fn("Combinator2", "Swap")
      [] word = "Rovo" -> Fn("Combinator2", "Over")
      [] word = "Sila" -> Fn("Control", "XSlider")
      [] word = "Vila" -> Fn("Control", "YSlider")
      [] word = "Pa" -> Fn("Nullary", "TargetX")
      [] word = "Pi" -> Fn("Nullary", "TargetY")

\* Word::cost
cost(word) ==
    CASE word = "Ti" -> 1
      [] word = "Tu" -> 2
      [] word = "Ta" -> 5
      [] word = "Te" -> 10
      [] word = "Sila" -> 2
      [] word = "Vila" -> 2
      [] word = "Pa" -> 3
      [] word = "Pi" -> 3
      [] OTHER -> 1

\* ---------------------------------------------------------- field algebra
\* A field expression is an immutable tree; every node has the same shape so
\* that two expressions can be compared structurally.
Node(op, ty, x, y, args) == [op |-> op, ty |-> ty, x |-> x, y |-> y, args |-> args]

ScalarUniform(n) == Node("Uniform", "Scalar", n, 0, <<>>)
VectorUniform(x, y) == Node("Uniform", "Vector", x, y, <<>>)
ScalarLeaf(op) == Node(op, "Scalar", 0, 0, <<>>)

\* Nullary::field: the literal a nullary word pushes
nullary_field(name) ==
    CASE name = "One" -> ScalarUniform(1)
      [] name = "Two" -> ScalarUniform(2)
      [] name = "Five" -> ScalarUniform(5)
      [] name = "Ten" -> ScalarUniform(10)
      [] name = "OneX" -> VectorUniform(1, 0)
      [] name = "OneY" -> VectorUniform(0, 1)
      [] OTHER -> ScalarLeaf(name)

\* ScalarField::Input(kind)
input_field(kind) == ScalarLeaf(kind)

\* a control word that would push the constant 0
control_field_zero(kind) == ScalarUniform(0)

\* ScalarField::Control(kind): a reference to the control, read when sampled
control_field(kind) == ScalarLeaf(kind)

UnNode(op, ty, a) == Node(op, ty, 0, 0, <<a>>)
BinNode(op, ty, a, b) == Node(op, ty, 0, 0, <<a, b>>)

\* VectorField::Filter: the vector field v gated by the scalar field mask
filter_field(v, mask) == BinNode("Filter", "Vector", v, mask)

\* ------------------------------------------------------------ stack items
\* StackItem { field, words }
Item(field, words) == [field |-> field, words |-> words]

Top(stack) == stack[Len(stack)]
Second(stack) == stack[Len(stack) - 1]
Below(stack, n) == SubSeq(stack, 1, Len(stack) - n)

RECURSIVE stack_words(_)
\* Stack::words: the word sequences of the items, bottom to top, flattened
stack_words(stack) ==
    IF stack = <<>> THEN <<>> ELSE stack_words(Below(stack, 1)) \o Top(stack).words

\* --------------------------------------------------------------- registry
\* HashMap with no key
EmptyMap == [k \in {} |-> <<>>]

\* HashMap::entry(k).or_default()
entry_or_default(m, k, d) == IF k \in DOMAIN m THEN m ELSE m @@ (k :> d)

\* ActiveSpell { field, words }
ActiveSpell(field, words) == [field |-> field, words |-> words]

\* ActiveSpells::default()
NoActiveSpells == [scalars |-> EmptyMap, vectors |-> EmptyMap]

\* the vector spells of a person and kind, the empty list when a key is absent
spells_of(spells, person_id, kind) ==
    IF person_id \in DOMAIN spells.vectors /\ kind \in DOMAIN spells.vectors[person_id]
    THEN spells.vectors[person_id][kind]
    ELSE <<>>

\* a commit that replaces the list of the kind by the new spell alone
commit_overwrite(spells, person_id, kind, spell) ==
    LET byPerson == entry_or_default(spells.vectors, person_id, EmptyMap)
        byKind == entry_or_default(byPerson[person_id], kind, <<>>)
    IN [spells EXCEPT !.vectors =
            [byPerson EXCEPT ![person_id] = [byKind EXCEPT ![kind] = <<spell>>]]]

\* commit(caster, kind, field, words):
\* vectors.entry(person_id).or_default().entry(kind).or_default().push(spell)
commit(spells, person_id, kind, spell) ==
    LET byPerson == entry_or_default(spells.vectors, person_id, EmptyMap)
        byKind == entry_or_default(byPerson[person_id], kind, <<>>)
    IN [spells EXCEPT !.vectors =
            [byPerson EXCEPT ![person_id] = [byKind EXCEPT ![kind] = Append(@, spell)]]]

\* ActiveSpells::contains: some caster's map has the kind as a key
contains(spells, kind) ==
    \E id \in DOMAIN spells.vectors : kind \in DOMAIN spells.vectors[id]

\* a removal that keeps the entries up to i and drops the ones after it
vec_truncate(list, i) == SubSeq(list, 1, i + 1)

\* Vec::remove(i) with i counted from 0 and in range: the entries after i move
\* one place down
vec_remove(list, i) == SubSeq(list, 1, i) \o SubSeq(list, i + 2, Len(list))

\* a removal that takes the oldest entry whatever the index
remove_front(spells, person_id, kind, i) ==
    LET byPerson == entry_or_default(spells.vectors, person_id, EmptyMap)
        byKind == entry_or_default(byPerson[person_id], kind, <<>>)
    IN [spells EXCEPT !.vectors =
            [byPerson EXCEPT ![person_id] = [byKind EXCEPT ![kind] = vec_remove(@, 0)]]]

\* a removal that drops the key of a list it has emptied
remove_and_prune(spells, person_id, kind, i) ==
    LET byPerson == entry_or_default(spells.vectors, person_id, EmptyMap)
        byKind == entry_or_default(byPerson[person_id], kind, <<>>)
        list == vec_remove(byKind[kind], i)
    IN [spells EXCEPT !.vectors =
            [byPerson EXCEPT ![person_id] =
                IF list = <<>>
                THEN [k \in DOMAIN byKind \ {kind} |-> byKind[k]]
                ELSE [byKind EXCEPT ![kind] = list]]]

\* ActiveSpells::remove:
\* vectors.entry(person_id).or_default().entry(kind).or_default().remove(i)
remove(spells, person_id, kind, i) ==
    LET byPerson == entry_or_default(spells.vectors, person_id, EmptyMap)
        byKind == entry_or_default(byPerson[person_id], kind, <<>>)
    IN [spells EXCEPT !.vectors =
            [byPerson EXCEPT ![person_id] = [byKind EXCEPT ![kind] = vec_remove(@, i)]]]

\* ActiveSpells::player_spell_words: the words of the player's spells of the
\* kind in the order of their list, nothing when a key is absent
player_spell_words(spells, kind) ==
    IF "Player" \in DOMAIN spells.vectors /\ kind \in DOMAIN spells.vectors["Player"]
    THEN [n \in 1..Len(spells.vectors["Player"][kind]) |->
             spells.vectors["Player"][kind][n].words]
    ELSE <<>>

\* ------------------------------------------------------------ the machine
\* operands a function consumes
operands(f) ==
    CASE f.cat \in { "Nullary", "ReadField", "Control" } -> 0
      [] f.cat \in { "WriteField", "MathUnOp", "ScalarUnOp", "ToScalarOp", "Combinator1" } -> 1
      [] f.cat \in { "HomoBinOp", "HeteroBinOp", "Combinator2" } -> 2

\* kinds that let the scalar and the vector of a heterogeneous operator come
\* in either order
kinds_ok_either_order(stack, f) ==
    CASE f.cat = "WriteField" -> Top(stack).field.ty = "Vector"
      [] f.cat = "ScalarUnOp" -> Top(stack).field.ty = "Scalar"
      [] f.cat = "ToScalarOp" -> Top(stack).field.ty = "Vector"
      [] f.cat = "HomoBinOp" -> Second(stack).field.ty = Top(stack).field.ty
      [] f.cat = "HeteroBinOp" -> Second(stack).field.ty # Top(stack).field.ty
      [] OTHER -> TRUE

\* the kinds a function requires of its operands, given a stack deep enough
kinds_ok(stack, f) ==
    CASE f.cat = "WriteField" -> Top(stack).field.ty = "Vector"
      [] f.cat = "ScalarUnOp" -> Top(stack).field.ty = "Scalar"
      [] f.cat = "ToScalarOp" -> Top(stack).field.ty = "Vector"
      [] f.cat = "HomoBinOp" -> Second(stack).field.ty = Top(stack).field.ty
      [] f.cat = "HeteroBinOp" ->
            Second(stack).field.ty = "Scalar" /\ Top(stack).field.ty = "Vector"
      [] OTHER -> TRUE

\* Stack::validate_function_use(&self, function)
validate_function_use(stack, f) ==
    IF Len(stack) < operands(f) THEN "StackUnderflow"
    ELSE IF ~ kinds_ok(stack, f) THEN "TypeMismatch"
    ELSE "Ok"

Done(stack, spells) == [res |-> "Ok", stack |-> stack, spells |-> spells]
Failed(err, stack, spells) == [res |-> err, stack |-> stack, spells |-> spells]

\* the unary operators: the top is wrapped in the operator's node
say_unary(stack, spells, word, f) ==
    IF Len(stack) < 1 THEN Failed("StackUnderflow", stack, spells)
    ELSE
      LET a == Top(stack)
          words == a.words \o <<word>>
      IN CASE f.cat = "MathUnOp" ->
                Done(Append(Below(stack, 1),
                            Item(UnNode(f.name, a.field.ty, a.field), words)), spells)
           [] f.cat = "ScalarUnOp" ->
                IF a.field.ty # "Scalar" THEN Failed("TypeMismatch", stack, spells)
                ELSE Done(Append(Below(stack, 1),
                                 Item(UnNode(f.name, "Scalar", a.field), words)), spells)
           [] f.cat = "ToScalarOp" ->
                IF a.field.ty # "Vector" THEN Failed("TypeMismatch", stack, spells)
                ELSE Done(Append(Below(stack, 1),
                                 Item(UnNode(f.name, "Scalar", a.field), words)), spells)

\* binary operators that list the words of the top operand first
say_binary_top_words_first(stack, spells, word, f) ==
    IF Len(stack) < 2 THEN Failed("StackUnderflow", stack, spells)
    ELSE
      LET b == Top(stack)
          a == Second(stack)
          words == b.words \o a.words \o <<word>>
      IN CASE f.cat = "HomoBinOp" ->
                IF a.field.ty # b.field.ty THEN Failed("TypeMismatch", stack, spells)
                ELSE Done(Append(Below(stack, 2),
                                 Item(BinNode(f.name, a.field.ty, a.field, b.field), words)),
                          spells)
           [] f.cat = "HeteroBinOp" ->
                IF a.field.ty # "Scalar" \/ b.field.ty # "Vector"
                THEN Failed("TypeMismatch", stack, spells)
                ELSE Done(Append(Below(stack, 2),
                                 Item(BinNode(f.name, "Vector", a.field, b.field), words)),
                          spells)

\* binary operators that leave their first operand on the stack
say_binary_keep_first(stack, spells, word, f) ==
    IF Len(stack) < 2 THEN Failed("StackUnderflow", stack, spells)
    ELSE
      LET b == Top(stack)
          a == Second(stack)
          words == a.words \o b.words \o <<word>>
      IN CASE f.cat = "HomoBinOp" ->
                IF a.field.ty # b.field.ty THEN Failed("TypeMismatch", stack, spells)
                ELSE Done(Append(Below(stack, 1),
                                 Item(BinNode(f.name, a.field.ty, a.field, b.field), words)),
                          spells)
           [] f.cat = "HeteroBinOp" ->
                IF a.field.ty # "Scalar" \/ b.field.ty # "Vector"
                THEN Failed("TypeMismatch", stack, spells)
                ELSE Done(Append(Below(stack, 1),
                                 Item(BinNode(f.name, "Vector", a.field, b.field), words)),
                          spells)

\* the binary operators: the top two are wrapped in the operator's node
say_binary(stack, spells, word, f) ==
    IF Len(stack) < 2 THEN Failed("StackUnderflow", stack, spells)
    ELSE
      LET b == Top(stack)
          a == Second(stack)
          words == a.words \o b.words \o <<word>>
      IN CASE f.cat = "HomoBinOp" ->
                IF a.field.ty # b.field.ty THEN Failed("TypeMismatch", stack, spells)
                ELSE Done(Append(Below(stack, 2),
                                 Item(BinNode(f.name, a.field.ty, a.field, b.field), words)),
                          spells)
           [] f.cat = "HeteroBinOp" ->
                IF a.field.ty # "Scalar" \/ b.field.ty # "Vector"
                THEN Failed("TypeMismatch", stack, spells)
                ELSE Done(Append(Below(stack, 2),
                                 Item(BinNode(f.name, "Vector", a.field, b.field), words)),
                          spells)

\* combinators whose Drop discards the oldest entry of the stack
say_combinator_drop_bottom(stack, spells, f) ==
    CASE f.cat = "Combinator1" ->
            IF Len(stack) < 1 THEN Failed("StackUnderflow", stack, spells)
            ELSE IF f.name = "Drop" THEN Done(Tail(stack), spells)
            ELSE Done(Append(stack, Top(stack)), spells)
      [] f.cat = "Combinator2" ->
            IF Len(stack) < 2 THEN Failed("StackUnderflow", stack, spells)
            ELSE IF f.name = "Swap"
            THEN Done(Below(stack, 2) \o <<Top(stack), Second(stack)>>, spells)
            ELSE Done(Append(stack, Second(stack)), spells)

\* combinators whose Swap writes the top over the second entry
say_combinator_swap_overwrites(stack, spells, f) ==
    CASE f.cat = "Combinator1" ->
            IF Len(stack) < 1 THEN Failed("StackUnderflow", stack, spells)
            ELSE IF f.name = "Drop" THEN Done(Below(stack, 1), spells)
            ELSE Done(Append(stack, Top(stack)), spells)
      [] f.cat = "Combinator2" ->
            IF Len(stack) < 2 THEN Failed("StackUnderflow", stack, spells)
            ELSE IF f.name = "Swap"
            THEN Done(Below(stack, 2) \o <<Top(stack), Top(stack)>>, spells)
            ELSE Done(Append(stack, Second(stack)), spells)

\* combinators whose Over duplicates the top entry
say_combinator_over_top(stack, spells, f) ==
    CASE f.cat = "Combinator1" ->
            IF Len(stack) < 1 THEN Failed("StackUnderflow", stack, spells)
            ELSE IF f.name = "Drop" THEN Done(Below(stack, 1), spells)
            ELSE Done(Append(stack, Top(stack)), spells)
      [] f.cat = "Combinator2" ->
            IF Len(stack) < 2 THEN Failed("StackUnderflow", stack, spells)
            ELSE IF f.name = "Swap"
            THEN Done(Below(stack, 2) \o <<Top(stack), Second(stack)>>, spells)
            ELSE Done(Append(stack, Top(stack)), spells)

\* the combinators: entries are rearranged or duplicated, never rebuilt
say_combinator(stack, spells, f) ==
    CASE f.cat = "Combinator1" ->
            IF Len(stack) < 1 THEN Failed("StackUnderflow", stack, spells)
            ELSE IF f.name = "Drop" THEN Done(Below(stack, 1), spells)
            ELSE Done(Append(stack, Top(stack)), spells)
      [] f.cat = "Combinator2" ->
            IF Len(stack) < 2 THEN Failed("StackUnderflow", stack, spells)
            ELSE IF f.name = "Swap"
            THEN Done(Below(stack, 2) \o <<Top(stack), Second(stack)>>, spells)
            ELSE Done(Append(stack, Second(stack)), spells)

\* the write words: the top is moved into the registry, when one is given
say_write(stack, spells, person_id, f, write_outputs) ==
    IF Len(stack) < 1 THEN Failed("StackUnderflow", stack, spells)
    ELSE IF Top(stack).field.ty # "Vector" THEN Failed("TypeMismatch", stack, spells)
    ELSE Done(Below(stack, 1),
              IF write_outputs
              THEN commit(spells, person_id, f.name,
                          ActiveSpell(Top(stack).field, Top(stack).words))
              ELSE spells)

\* Stack::say(&mut self, person_id, word, write_outputs)
say(stack, spells, person_id, word, write_outputs) ==
    LET f == function(word)
    IN CASE f.cat = "Nullary" ->
              Done(Append(stack, Item(nullary_field(f.name), <<word>>)), spells)
         [] f.cat = "ReadField" ->
              Done(Append(stack, Item(input_field(f.name), <<word>>)), spells)
         [] f.cat = "Control" ->
              Done(Append(stack, Item(control_field(f.name), <<word>>)), spells)
         [] f.cat = "WriteField" -> say_write(stack, spells, person_id, f, write_outputs)
         [] f.cat \in { "MathUnOp", "ScalarUnOp", "ToScalarOp" } ->
              say_unary(stack, spells, word, f)
         [] f.cat \in { "HomoBinOp", "HeteroBinOp" } -> say_binary(stack, spells, word, f)
         [] f.cat \in { "Combinator1", "Combinator2" } -> say_combinator(stack, spells, f)

\* ---------------------------------------------------------------- people
\* Person::do_work: the work done by the physics step is paid in mana
do_work(m, work) == IF m >= work THEN m - work ELSE 0

\* Person::can_cast
can_cast(m) == m > 0

\* Person::regen_mana
regen_mana(m) == IF m < MaxMana THEN m + 1 ELSE m

\* World::person_ids: the player first, then the NPCs
person_ids == <<"Player", "Npc1">>

\* ------------------------------------------------------------------ state
VARIABLES
    stack,          \* world.player.person.stack
    active_spells,  \* world.active_spells
    progression,    \* world.player.progression
    fields_display, \* ui_state.fields_display (its keys)
    mana,           \* the mana of each person
    conduits,       \* world.player.person.rack.conduits (the words of each stone)
    controls,       \* world.controls: each slider is <<>> (None) or <<value>>
    last,           \* the last handler that ran and how it ended
    frame,          \* Game::show: where the frame is (pc), self.ticker,
                    \* ui_state.paused, and what the frame has done so far
    forces          \* physics.bodies: the force that acts on each body

vars ==
    <<stack, active_spells, progression, fields_display, mana, conduits, controls, last,
      frame, forces>>

\* the words the player has unlocked, one or more of every function category
KnownWords ==
    { "Ti", "Kova", "Le", "Sila", "Ke", "Ma", "Sa", "Na", "Solo", "Reso",
      "No", "Mo", "Re", "Rovo" }

\* word sequences a conduit stone of the player's rack may hold at start
StoredWords ==
    { <<>>, <<"Ti", "Ma", "Kova">>, <<"Kova", "Ke", "Ti">>, <<"Mo", "Ma">> }

Event(op, res) == [op |-> op, res |-> res]

\* the words known in the runs that follow the world update and the NPCs
WorldWords == { "Ti", "Kova", "Sa", "Na", "Ke", "No", "Mo" }

\* the words known in the runs that follow the conduit
ConduitWords == { "Ti", "Kova", "Ke", "Ma", "Sa", "Na", "No", "Mo", "Re", "Rovo" }

\* world.objects: the dynamic bodies that initialize_physics adds
Objects == { "Ball" }

\* Game::new: ticker: 0.0, paused: false, before the first frame
NewFrame ==
    [pc |-> "top_ui", ticker |-> 0, paused |-> FALSE, todo |-> <<>>, log |-> <<>>,
     held |-> 0, ticks |-> 0, started_paused |-> FALSE]

\* Game::new and World::new for a player with the given progression
Start(known_words, conduit, stones) ==
    /\ stack = <<>>
    /\ active_spells = NoActiveSpells
    /\ progression = [known_words |-> known_words, known_fields |-> {},
                      free |-> TRUE, conduit |-> conduit]
    /\ fields_display = {}
    /\ mana = [id \in PersonIds |-> MaxMana]
    /\ conduits = stones
    /\ controls = [x_slider |-> <<>>, y_slider |-> <<>>]
    /\ last = Event("new", "Ok")
    /\ frame = NewFrame
    /\ forces = [handle \in Objects |-> <<0, 0>>]

\* a player with the conduit and one stone in the rack
Init == \E ws \in StoredWords : Start(KnownWords, TRUE, <<ws>>)

\* a player whose conduit is still locked (conduit_ui returns at once)
InitStack == Start(KnownWords, FALSE, <<>>)
InitWorld == Start(WorldWords, FALSE, <<>>)
InitConduit == \E ws \in StoredWords : Start(ConduitWords, TRUE, <<ws>>)

\* the part of the state space that is explored
RECURSIVE list_words(_)
list_words(spells) ==
    IF spells = <<>> THEN 0 ELSE Len(Head(spells).words) + list_words(Tail(spells))

RECURSIVE kinds_words(_, _)
kinds_words(byKind, kinds) ==
    IF kinds = {} THEN 0
    ELSE LET k == CHOOSE k \in kinds : TRUE
         IN list_words(byKind[k]) + kinds_words(byKind, kinds \ {k})

person_words(sp, id) ==
    IF id \in DOMAIN sp.vectors
    THEN kinds_words(sp.vectors[id], DOMAIN sp.vectors[id]) ELSE 0

Bounded(st, sp) == Len(stack_words(st)) + person_words(sp, "Player") <= MaxWords
NpcBounded(sp) ==
    \A id \in DOMAIN sp.vectors \cap Npcs : \A k \in DOMAIN sp.vectors[id] :
        Len(sp.vectors[id][k]) <= MaxNpcSpells

\* ---------------------------------------------------------------- conduit
RECURSIVE replay_no_break(_, _)
\* the replay loop without its break: the words after a failing one are said too
replay_no_break(st, words) ==
    IF words = <<>> THEN [res |-> "Ok", stack |-> st, said |-> 0]
    ELSE LET r == say(st, NoActiveSpells, "Player", Head(words), FALSE)
             rest == replay_no_break(r.stack, Tail(words))
         IN [res |-> IF Tail(words) = <<>> THEN r.res ELSE rest.res,
             stack |-> rest.stack, said |-> rest.said + 1]

RECURSIVE replay(_, _)
\* the replay loop of conduit_ui on its clone of the stack:
\* for word in &stone.words { res = stack.say(Player, *word, None); if err { break } }
replay(st, words) ==
    IF words = <<>> THEN [res |-> "Ok", stack |-> st, said |-> 0]
    ELSE LET r == say(st, NoActiveSpells, "Player", Head(words), FALSE)
         IN IF r.res # "Ok" THEN [res |-> r.res, stack |-> r.stack, said |-> 1]
            ELSE LET rest == replay(r.stack, Tail(words))
                 IN [res |-> rest.res, stack |-> rest.stack, said |-> rest.said + 1]

\* a replay that starts from an empty stack
conduit_fresh(st) == <<>>

\* conduit_ui: let mut stack = self.world.player.person.stack.clone()
conduit_clone(st) == st

\* a replay that says every word of the stone, whatever the results
conduit_replay_no_break(st, words) == replay_no_break(conduit_clone(st), words)

\* conduit_ui: the replay of a stone's words on the clone
conduit_replay(st, words) == replay(conduit_clone(st), words)

\* a cast that stores the clone whatever the replay returned
conduit_stack_always(st, words) == conduit_replay(st, words).stack

\* the stack persisted by a click on a stone: the clone when the replay is Ok
\* (the button of a stone whose replay failed is disabled)
conduit_stack(st, words) ==
    LET r == conduit_replay(st, words) IN IF r.res = "Ok" THEN r.stack ELSE st

\* conduit_ui, the stone's button is clicked
ConduitCast(i) ==
    /\ progression.conduit
    /\ Bounded(conduit_stack(stack, conduits[i]), active_spells)
    /\ stack' = conduit_stack(stack, conduits[i])
    /\ last' = Event("cast", conduit_replay(stack, conduits[i]).res)
    /\ UNCHANGED <<active_spells, progression, fields_display, mana, conduits, controls>>

\* an etching that adds the words to the ones the stone holds
etch_append(stone, words) == stone \o words

\* ConduitStone::etch: the stone holds the words it is given
etch(stone, words) == words

\* conduit_ui, the stone's "+" button is clicked
ConduitEtch(i) ==
    /\ progression.conduit
    /\ stack # <<>>
    /\ conduits' = [conduits EXCEPT ![i] = etch(@, stack_words(stack))]
    /\ stack' = <<>>
    /\ last' = Event("etch", "Ok")
    /\ UNCHANGED <<active_spells, progression, fields_display, mana, controls>>

\* ------------------------------------------------------------ word buttons
\* a table whose costs grow with what the player's stack holds
Lookup_by_stack == [w \in Word |-> <<function(w), cost(w) + Len(stack)>>]

\* the lookups of words_grid, word.function() and word.cost(), of every word
Lookup == [w \in Word |-> <<function(w), cost(w)>>]

\* Person::capped_mana
capped_mana(id) == mana[id]

\* a button that is enabled whatever the word costs
enabled_any_mana(word, dialog_allows_casting) ==
    /\ dialog_allows_casting
    /\ word \in progression.known_words
    /\ validate_function_use(stack, function(word)) = "Ok"

\* words_grid: whether the word's button is enabled
enabled(word, dialog_allows_casting) ==
    /\ dialog_allows_casting
    /\ word \in progression.known_words
    /\ validate_function_use(stack, function(word)) = "Ok"
    /\ capped_mana("Player") >= cost(word)

\* the say of a word button with another caster's id
button_say_npc(word) == say(stack, active_spells, "Npc1", word, TRUE)

\* the say of a word button with the id of an NPC the world does not hold
button_say_stranger(word) == say(stack, active_spells, "Npc2", word, TRUE)

\* words_grid: player_person.stack.say(Player, *word, Some(&mut active_spells))
button_say(word) == say(stack, active_spells, "Player", word, TRUE)

\* a click that reveals the field and says the word at once
words_grid_reveal_and_say(word) ==
    /\ \E dialog_allows_casting \in BOOLEAN : enabled(word, dialog_allows_casting)
    /\ LET f == function(word)
           r == button_say(word)
       IN /\ Bounded(r.stack, r.spells)
          /\ stack' = r.stack
          /\ active_spells' = r.spells
          /\ last' = Event("say", r.res)
          /\ IF f.cat = "ReadField"
             THEN /\ progression' = [progression EXCEPT !.known_fields = @ \cup {f.name}]
                  /\ fields_display' = fields_display \cup {f.name}
             ELSE UNCHANGED <<progression, fields_display>>
    /\ UNCHANGED <<mana, conduits, controls>>

\* words_grid, the word's button is clicked
WordsGrid(word) ==
    /\ \E dialog_allows_casting \in BOOLEAN : enabled(word, dialog_allows_casting)
    /\ LET f == function(word)
       IN IF f.cat = "ReadField" /\ f.name \notin progression.known_fields
          THEN \* the first click reveals the field, the word is not said
               /\ progression' = [progression EXCEPT !.known_fields = @ \cup {f.name}]
               /\ fields_display' = fields_display \cup {f.name}
               /\ last' = Event("reveal", "Ok")
               /\ UNCHANGED <<stack, active_spells>>
          ELSE LET r == button_say(word)
               IN /\ Bounded(r.stack, r.spells)
                  /\ stack' = r.stack
                  /\ active_spells' = r.spells
                  /\ last' = Event("say", r.res)
                  /\ UNCHANGED <<progression, fields_display>>
    /\ UNCHANGED <<mana, conduits, controls>>

\* a frame that finds out which words are usable by saying them
words_show_by_saying ==
    /\ \E word \in progression.known_words :
          stack' = say(stack, active_spells, "Player", word, FALSE).stack
    /\ UNCHANGED <<active_spells, progression, fields_display, mana, conduits, controls, last>>

\* words_grid, a frame without a click: every word is validated for its
\* button through a shared borrow of the player, and nothing is written
WordsShow ==
    /\ \A word \in Word : \A d \in BOOLEAN : enabled(word, d) \in BOOLEAN
    /\ UNCHANGED vars

\* a Free that releases the player's active spells too
Free_everything ==
    /\ progression.free
    /\ stack' = <<>>
    /\ active_spells' =
          [active_spells EXCEPT !.vectors =
              [id \in DOMAIN active_spells.vectors |->
                  IF id = "Player" THEN EmptyMap ELSE active_spells.vectors[id]]]
    /\ last' = Event("free", "Ok")
    /\ UNCHANGED <<progression, fields_display, mana, conduits, controls>>

\* words_grid, the Free button is clicked
Free ==
    /\ progression.free
    /\ stack' = <<>>
    /\ last' = Event("free", "Ok")
    /\ UNCHANGED <<active_spells, progression, fields_display, mana, conduits, controls>>

\* ----------------------------------------------------------- field plots
\* fields_ui: the words of the i-th listed spell of an output kind are clicked
Dispel(kind, i) ==
    /\ contains(active_spells, kind)
    /\ i \in 0..(Len(player_spell_words(active_spells, kind)) - 1)
    /\ active_spells' = remove(active_spells, "Player", kind, i)
    /\ last' = Event("dispel", "Ok")
    /\ UNCHANGED <<stack, progression, fields_display, mana, conduits, controls>>

\* ----------------------------------------------------------- world update
\* a loop body that empties the lists of a person who cannot cast and keeps
\* the kinds as keys
update_person_keep_kinds(w, id, work) ==
    LET m1 == do_work(w.mana[id], work)
        sc0 == entry_or_default(w.spells.scalars, id, EmptyMap)
        ve0 == entry_or_default(w.spells.vectors, id, EmptyMap)
        sc == IF can_cast(m1) THEN sc0
              ELSE [sc0 EXCEPT ![id] = [k \in DOMAIN sc0[id] |-> <<>>]]
        ve == IF can_cast(m1) THEN ve0
              ELSE [ve0 EXCEPT ![id] = [k \in DOMAIN ve0[id] |-> <<>>]]
        idle == /\ \A k \in DOMAIN sc[id] : sc[id][k] = <<>>
                /\ \A k \in DOMAIN ve[id] : ve[id][k] = <<>>
    IN [mana |-> [w.mana EXCEPT ![id] = IF idle THEN regen_mana(m1) ELSE m1],
        spells |-> [scalars |-> sc, vectors |-> ve]]

\* a loop body that empties the whole registry when the person cannot cast
update_person_clear_everyone(w, id, work) ==
    LET m1 == do_work(w.mana[id], work)
        sc0 == entry_or_default(w.spells.scalars, id, EmptyMap)
        ve0 == entry_or_default(w.spells.vectors, id, EmptyMap)
        sc == IF can_cast(m1) THEN sc0 ELSE [p \in DOMAIN sc0 |-> EmptyMap]
        ve == IF can_cast(m1) THEN ve0 ELSE [p \in DOMAIN ve0 |-> EmptyMap]
        idle == /\ \A k \in DOMAIN sc[id] : sc[id][k] = <<>>
                /\ \A k \in DOMAIN ve[id] : ve[id][k] = <<>>
    IN [mana |-> [w.mana EXCEPT ![id] = IF idle THEN regen_mana(m1) ELSE m1],
        spells |-> [scalars |-> sc, vectors |-> ve]]

\* a loop body that looks for the person's spells before it clears them
update_person_idle_first(w, id, work) ==
    LET m1 == do_work(w.mana[id], work)
        sc0 == entry_or_default(w.spells.scalars, id, EmptyMap)
        ve0 == entry_or_default(w.spells.vectors, id, EmptyMap)
        sc == IF can_cast(m1) THEN sc0 ELSE [sc0 EXCEPT ![id] = EmptyMap]
        ve == IF can_cast(m1) THEN ve0 ELSE [ve0 EXCEPT ![id] = EmptyMap]
        idle == /\ \A k \in DOMAIN sc0[id] : sc0[id][k] = <<>>
                /\ \A k \in DOMAIN ve0[id] : ve0[id][k] = <<>>
    IN [mana |-> [w.mana EXCEPT ![id] = IF idle THEN regen_mana(m1) ELSE m1],
        spells |-> [scalars |-> sc, vectors |-> ve]]

\* the body of the loop of World::update for one person
update_person(w, id, work) ==
    LET m1 == do_work(w.mana[id], work)
        sc0 == entry_or_default(w.spells.scalars, id, EmptyMap)
        ve0 == entry_or_default(w.spells.vectors, id, EmptyMap)
        sc == IF can_cast(m1) THEN sc0 ELSE [sc0 EXCEPT ![id] = EmptyMap]
        ve == IF can_cast(m1) THEN ve0 ELSE [ve0 EXCEPT ![id] = EmptyMap]
        idle == /\ \A k \in DOMAIN sc[id] : sc[id][k] = <<>>
                /\ \A k \in DOMAIN ve[id] : ve[id][k] = <<>>
    IN [mana |-> [w.mana EXCEPT ![id] = IF idle THEN regen_mana(m1) ELSE m1],
        spells |-> [scalars |-> sc, vectors |-> ve]]

RECURSIVE update_from(_, _, _)
\* World::update: for id in self.person_ids() { ... }
update_from(w, i, work) ==
    IF i > Len(person_ids) THEN w
    ELSE update_from(update_person(w, person_ids[i], work), i + 1, work)

\* the vector fields an NPC casts
NpcFields == { VectorUniform(0, 1) }

\* the output kinds an NPC writes
NpcKinds == { "Gravity", "Force" }

\* an NPC commits a spell of its own
NpcCast(id, kind, field) ==
    /\ can_cast(mana[id])
    /\ LET sp == commit(active_spells, id, kind, ActiveSpell(field, <<"Kovi">>))
       IN /\ NpcBounded(sp)
          /\ active_spells' = sp
    /\ last' = Event("npc", "Ok")
    /\ UNCHANGED <<stack, progression, fields_display, mana, conduits, controls>>

\* ---------------------------------------------------------------- sampling
\* Values are whole numbers: a scalar sample is a number, a vector sample a
\* pair.  The world of the model holds no objects.

\* Vec2::ZERO
ZERO == <<0, 0>>

vadd(a, b) == <<a[1] + b[1], a[2] + b[2]>>
vscale(v, n) == <<v[1] * n, v[2] * n>>
vsub(a, b) == <<a[1] - b[1], a[2] - b[2]>>
abs(n) == IF n < 0 THEN 0 - n ELSE n

\* Vec2::length, rounded down to a whole number
length(v) ==
    LET q == v[1] * v[1] + v[2] * v[2]
    IN CHOOSE n \in 0..(abs(v[1]) + abs(v[2])) : n * n <= q /\ q < (n + 1) * (n + 1)

\* the world a sample reads: the registry, the people and the controls
Snapshot == [spells |-> active_spells, mana |-> mana, controls |-> controls]

\* where the people stand
person_pos(id) == IF id = "Player" THEN <<0, 0>> ELSE <<1, 0>>

\* Person::field_scale: a scalar of the person that follows the person's mana
field_scale(w, id) == w.mana[id]

\* Controls::get: the slider's value, 0 when it has none
controls_get(ctl, kind) ==
    LET slider == IF kind = "XSlider" THEN ctl.x_slider ELSE ctl.y_slider
    IN IF slider = <<>> THEN 0 ELSE slider[1]

\* every active spell of the registry: its caster, its kind and its place
casts(spells) ==
    UNION { { <<id, k, n>> : n \in 1..Len(spells_of(spells, id, k)) } :
               id \in PersonIds, k \in VectorOutputFieldKind }

\* a gate that lets everything through
filter_pass(v, mask) == v

\* the gate of a Filter node on the two samples taken at the same position:
\* the zero vector where the mask is not positive, else the vector unchanged
filter(v, mask) == IF mask <= 0 THEN ZERO ELSE v

RECURSIVE sample(_, _, _)
RECURSIVE sample_relative(_, _, _, _)
RECURSIVE magic_sum(_, _, _)
RECURSIVE sample_input_scalar_field(_, _, _)

\* ScalarField::sample and VectorField::sample
sample(w, field, pos) ==
    CASE field.op = "Uniform" ->
            IF field.ty = "Scalar" THEN field.x ELSE <<field.x, field.y>>
      [] field.op = "X" -> pos[1]
      [] field.op = "Y" -> pos[2]
      [] field.op \in { "Elevation", "Density", "Magic" } ->
            sample_input_scalar_field(w, field.op, pos)
      [] field.op \in { "XSlider", "YSlider" } -> controls_get(w.controls, field.op)
      [] field.op = "Neg" ->
            IF field.ty = "Scalar" THEN 0 - sample(w, field.args[1], pos)
            ELSE vscale(sample(w, field.args[1], pos), 0 - 1)
      [] field.op = "Magnitude" -> length(sample(w, field.args[1], pos))
      [] field.op = "Add" ->
            IF field.ty = "Scalar"
            THEN sample(w, field.args[1], pos) + sample(w, field.args[2], pos)
            ELSE vadd(sample(w, field.args[1], pos), sample(w, field.args[2], pos))
      [] field.op = "Mul" ->
            IF field.ty = "Scalar"
            THEN sample(w, field.args[1], pos) * sample(w, field.args[2], pos)
            ELSE vscale(sample(w, field.args[2], pos), sample(w, field.args[1], pos))
      [] field.op = "Filter" /\ field.ty = "Vector" ->
            filter(sample(w, field.args[1], pos), sample(w, field.args[2], pos))

\* sample_relative: the field sampled with the caster's position as origin
sample_relative(w, field, person_id, pos) ==
    sample(w, field, vsub(pos, person_pos(person_id)))

\* sample_input_scalar_field, Magic: the sizes of the samples of every spell
magic_sum(w, todo, pos) ==
    IF todo = {} THEN 0
    ELSE LET c == CHOOSE c \in todo : TRUE
             spell == spells_of(w.spells, c[1], c[2])[c[3]]
         IN length(sample_relative(w, spell.field, c[1], pos))
               + magic_sum(w, todo \ {c}, pos)

\* World::sample_input_scalar_field in a world without objects
sample_input_scalar_field(w, kind, pos) ==
    CASE kind = "Density" -> 0
      [] kind = "Elevation" -> pos[2]
      [] kind = "Magic" -> magic_sum(w, casts(w.spells), pos)

RECURSIVE fold_spells(_, _, _, _, _)
\* the fold of sample_output_vector_field over the spells of one caster
fold_spells(w, acc, person_id, list, pos) ==
    IF list = <<>> THEN acc
    ELSE fold_spells(w,
                     vadd(acc, vscale(sample_relative(w, Head(list).field, person_id, pos),
                                      field_scale(w, person_id))),
                     person_id, Tail(list), pos)

RECURSIVE fold_people(_, _, _, _, _)
\* the fold of sample_output_vector_field over the casters of the registry
\* that have the kind as a key
fold_people(w, acc, ids, kind, pos) ==
    IF ids = {} THEN acc
    ELSE LET id == CHOOSE id \in ids : TRUE
             list == IF kind \in DOMAIN w.spells.vectors[id]
                     THEN w.spells.vectors[id][kind] ELSE <<>>
         IN fold_people(w, fold_spells(w, acc, id, list, pos), ids \ {id}, kind, pos)

\* an aggregation that leaves out the casters' field scale
sample_output_unscaled(w, kind, pos) ==
    fold_people([w EXCEPT !.mana = [id \in DOMAIN w.mana |-> 1]], ZERO,
                DOMAIN w.spells.vectors, kind, pos)

\* World::sample_output_vector_field
sample_output_vector_field(w, kind, pos) ==
    fold_people(w, ZERO, DOMAIN w.spells.vectors, kind, pos)

\* enum ScalarInputFieldKind, the kinds that world.rs samples
ScalarInputFieldKind == { "Density", "Elevation", "Magic" }

\* World::sample_scalar_field (there is no scalar output kind)
sample_scalar_field(w, kind, pos) == sample_input_scalar_field(w, kind, pos)

\* World::sample_vector_field (there is no vector input kind)
sample_vector_field(w, kind, pos) == sample_output_vector_field(w, kind, pos)

\* -------------------------------------------------------------- physics
\* where the bodies are
object_pos(handle) == <<3, 10>>

\* a physics step that adds the sample to the force the body has
run_physics_accumulating(w, bodies) ==
    IF contains(w.spells, "Force")
    THEN [handle \in Objects |->
             vadd(bodies[handle], sample_vector_field(w, "Force", object_pos(handle)))]
    ELSE bodies

\* run_physics, "Set forces": when the Force output is registered, every body
\* has its forces reset and the sample of the field at its position added
run_physics(w, bodies) ==
    IF contains(w.spells, "Force")
    THEN [handle \in Objects |->
             vadd(ZERO, sample_vector_field(w, "Force", object_pos(handle)))]
    ELSE bodies

\* World::update for the work done that run_physics returns
Tick(work) ==
    LET w == update_from([mana |-> mana, spells |-> active_spells], 1, work)
    IN /\ mana' = w.mana
       /\ active_spells' = w.spells
       /\ forces' = run_physics(Snapshot, forces)
       /\ last' = Event("update", "Ok")
       /\ UNCHANGED <<stack, progression, fields_display, conduits, controls>>

\* World::update, one tick; the work done comes from the physics step
Update == \E work \in 0..1 : Tick(work)

\* the positions at which the plots sample
Positions == { <<0, 0>>, <<2, 1>> }

\* what a plot shows: an input kind, an output kind or the top of the stack
Plotted == { "Magic", "Gravity", "Top" }

\* a plot whose samples of the magic grow once other samples were taken
get_z_counting(w, st, what, pos) ==
    CASE what = "Top" -> sample(w, Top(st).field, pos)
      [] what \in ScalarInputFieldKind ->
            sample_scalar_field(w, what, pos)
               + (IF what = "Magic" /\ last.op = "sample" /\ last.seq # "first"
                  THEN 1 ELSE 0)
      [] what \in VectorOutputFieldKind -> sample_vector_field(w, what, pos)

\* FieldPlottable::get_z of a stack field or of an input or output kind
get_z(w, st, what, pos) ==
    CASE what = "Top" -> sample(w, Top(st).field, pos)
      [] what \in ScalarInputFieldKind -> sample_scalar_field(w, what, pos)
      [] what \in VectorOutputFieldKind -> sample_vector_field(w, what, pos)

\* a plot that puts what it samples on the stack
Sample_pushing(what, pos) ==
    /\ what = "Top" => stack # <<>>
    /\ what = "Top"
    /\ stack' = Append(stack, Top(stack))
    /\ last' = Event("sample", "Ok")
    /\ UNCHANGED <<active_spells, progression, fields_display, mana, conduits, controls>>

\* a plot samples what it shows at a position.  The record kept in last is the
\* first sample taken of the current world (first, value), the latest sample
\* taken of the same thing at the same place (again), and how far the samples
\* have come (seq): the first only, other samples after it, the first thing
\* sampled again after those.
Sample(what, pos) ==
    /\ what = "Top" => stack # <<>>
    /\ LET v == get_z(Snapshot, stack, what, pos)
       IN IF last.op # "sample"
          THEN last' = [op |-> "sample", res |-> "Ok", first |-> <<what, pos>>,
                        value |-> v, again |-> v, seq |-> "first"]
          ELSE IF last.first = <<what, pos>>
          THEN last' = [last EXCEPT !.again = v,
                                    !.seq = IF @ = "between" THEN "again" ELSE @]
          ELSE last' = [last EXCEPT !.seq = IF @ = "first" THEN "between" ELSE @]
    /\ UNCHANGED <<stack, active_spells, progression, fields_display, mana, conduits,
                   controls>>

\* --------------------------------------------------------------- controls
RECURSIVE field_controls(_)
\* the control kinds a field reads
field_controls(field) ==
    IF field.op \in { "XSlider", "YSlider" } THEN { field.op }
    ELSE UNION { field_controls(field.args[n]) : n \in DOMAIN field.args }

\* controls_ui: the controls read by the player's stack and active spells
used_controls ==
    UNION ({ field_controls(stack[n].field) : n \in DOMAIN stack }
           \cup { field_controls(spells_of(active_spells, c[1], c[2])[c[3]].field) :
                     c \in { c \in casts(active_spells) : c[1] = "Player" } })

\* the values the keys and the drag give the sliders
XValues == { 0, 1 }
YValues == { 0, 1 }

\* controls_ui: a slider that is read exists and takes the value the player
\* gives it, a slider that is not read is None
ControlsUi ==
    /\ \E x \in XValues, y \in YValues :
          controls' = [x_slider |-> IF "XSlider" \in used_controls THEN <<x>> ELSE <<>>,
                       y_slider |-> IF "YSlider" \in used_controls THEN <<y>> ELSE <<>>]
    /\ last' = Event("controls", "Ok")
    /\ UNCHANGED <<stack, active_spells, progression, fields_display, mana, conduits>>

Next ==
    \/ (\E w \in Word : WordsGrid(w)) /\ UNCHANGED <<frame, forces>>
    \/ WordsShow /\ UNCHANGED <<frame, forces>>
    \/ Free /\ UNCHANGED <<frame, forces>>
    \/ (\E i \in DOMAIN conduits : ConduitCast(i)) /\ UNCHANGED <<frame, forces>>
    \/ (\E i \in DOMAIN conduits : ConduitEtch(i)) /\ UNCHANGED <<frame, forces>>
    \/ Update /\ UNCHANGED frame
    \/ (\E id \in Npcs, k \in NpcKinds, f \in NpcFields : NpcCast(id, k, f)) /\ UNCHANGED <<frame, forces>>
    \/ (\E k \in VectorOutputFieldKind, i \in 0..MaxWords : Dispel(k, i)) /\ UNCHANGED <<frame, forces>>
    \/ ControlsUi /\ UNCHANGED <<frame, forces>>
    \/ (\E what \in Plotted, pos \in Positions : Sample(what, pos)) /\ UNCHANGED <<frame, forces>>

Spec == Init /\ [][Next]_vars

\* In Spec and in the specifications restricted from it below, the handlers
\* run in any order and the frame they run in is left aside.
\* The three specifications below are Spec restricted by the player's
\* progression (the words known, the conduit locked or not) and by the frames
\* that occur (a paused game runs no world update).

\* the frames of a paused game whose conduit is locked: the word buttons
NextStack ==
    \/ (\E w \in Word : WordsGrid(w)) /\ UNCHANGED <<frame, forces>>
    \/ WordsShow /\ UNCHANGED <<frame, forces>>
    \/ Free /\ UNCHANGED <<frame, forces>>

SpecStack == InitStack /\ [][NextStack]_vars

\* the frames of a paused game whose conduit is unlocked
NextConduit ==
    \/ (\E w \in Word : WordsGrid(w)) /\ UNCHANGED <<frame, forces>>
    \/ WordsShow /\ UNCHANGED <<frame, forces>>
    \/ Free /\ UNCHANGED <<frame, forces>>
    \/ (\E i \in DOMAIN conduits : ConduitCast(i)) /\ UNCHANGED <<frame, forces>>
    \/ (\E i \in DOMAIN conduits : ConduitEtch(i)) /\ UNCHANGED <<frame, forces>>

SpecConduit == InitConduit /\ [][NextConduit]_vars

\* the frames of a running game with an NPC that casts, the conduit locked
NextWorld ==
    \/ (\E w \in Word : WordsGrid(w)) /\ UNCHANGED <<frame, forces>>
    \/ WordsShow /\ UNCHANGED <<frame, forces>>
    \/ Free /\ UNCHANGED <<frame, forces>>
    \/ Update /\ UNCHANGED frame
    \/ (\E id \in Npcs, k \in NpcKinds, f \in NpcFields : NpcCast(id, k, f)) /\ UNCHANGED <<frame, forces>>
    \/ (\E k \in VectorOutputFieldKind, i \in 0..MaxWords : Dispel(k, i)) /\ UNCHANGED <<frame, forces>>

SpecWorld == InitWorld /\ [][NextWorld]_vars

\* the words known in the runs that follow the plots
SampleWords == { "Sila", "Kova", "Sa", "Ke" }

InitSample == Start(SampleWords, FALSE, <<>>)

\* what the NPC casts in those runs: a field that grows with the distance
\* from its caster as Gravity, a uniform field as Force
SampleNpcCasts ==
    { <<"Gravity", BinNode("Mul", "Vector", ScalarLeaf("X"), VectorUniform(1, 0))>>,
      <<"Force", VectorUniform(0, 1)>> }

\* the frames of a running game with the plots left out
NextField ==
    \/ (\E w \in Word : WordsGrid(w)) /\ UNCHANGED <<frame, forces>>
    \/ Free /\ UNCHANGED <<frame, forces>>
    \/ Update /\ UNCHANGED frame
    \/ (\E id \in Npcs, c \in SampleNpcCasts : NpcCast(id, c[1], c[2])) /\ UNCHANGED <<frame, forces>>
    \/ (\E k \in VectorOutputFieldKind, i \in 0..MaxWords : Dispel(k, i)) /\ UNCHANGED <<frame, forces>>
    \/ ControlsUi /\ UNCHANGED <<frame, forces>>

SpecField == InitSample /\ [][NextField]_vars

\* the frames of a paused game whose fields are plotted
NextSample ==
    \/ (\E w \in Word : WordsGrid(w)) /\ UNCHANGED <<frame, forces>>
    \/ Free /\ UNCHANGED <<frame, forces>>
    \/ (\E id \in Npcs, c \in SampleNpcCasts : NpcCast(id, c[1], c[2])) /\ UNCHANGED <<frame, forces>>
    \/ ControlsUi /\ UNCHANGED <<frame, forces>>
    \/ (\E what \in Plotted, pos \in Positions : Sample(what, pos)) /\ UNCHANGED <<frame, forces>>

SpecSample == InitSample /\ [][NextSample]_vars

\* what the NPC casts in the runs that follow the Filter node: a uniform
\* field gated by the distance from its caster as Force, a field that grows
\* with that distance gated by a slider as Gravity
FilterNpcCasts ==
    { <<"Force", filter_field(VectorUniform(0, 1), ScalarLeaf("X"))>>,
      <<"Gravity", filter_field(BinNode("Mul", "Vector", ScalarLeaf("X"), VectorUniform(1, 0)),
                                control_field("XSlider"))>> }

\* the frames of a paused game whose plotted fields are gated
NextFilter ==
    \/ (\E w \in Word : WordsGrid(w)) /\ UNCHANGED <<frame, forces>>
    \/ Free /\ UNCHANGED <<frame, forces>>
    \/ (\E id \in Npcs, c \in FilterNpcCasts : NpcCast(id, c[1], c[2])) /\ UNCHANGED <<frame, forces>>
    \/ ControlsUi /\ UNCHANGED <<frame, forces>>
    \/ (\E what \in Plotted, pos \in Positions : Sample(what, pos)) /\ UNCHANGED <<frame, forces>>

SpecFilter == InitSample /\ [][NextFilter]_vars

\* the words known in the runs that follow the player's mana: a scalar of
\* cost 2 and what it takes to keep a spell active
ManaWords == { "Tu", "Kova", "Ke" }

\* a player with the conduit and one empty stone in the rack
InitMana == Start(ManaWords, TRUE, << <<>> >>)

\* the frames of a running game whose conduit is unlocked
NextMana ==
    \/ (\E w \in Word : WordsGrid(w)) /\ UNCHANGED <<frame, forces>>
    \/ Free /\ UNCHANGED <<frame, forces>>
    \/ (\E i \in DOMAIN conduits : ConduitCast(i)) /\ UNCHANGED <<frame, forces>>
    \/ (\E i \in DOMAIN conduits : ConduitEtch(i)) /\ UNCHANGED <<frame, forces>>
    \/ Update /\ UNCHANGED frame

SpecMana == InitMana /\ [][NextMana]_vars

\* ------------------------------------------------- the depth of a sample
\* the nested samples of Magic that the thread's stack has room for
MaxDepth == 3

RECURSIVE magic_reads(_)
\* the field reads the Magic input somewhere in its tree
magic_reads(field) ==
    \/ field.op = "Magic"
    \/ \E n \in DOMAIN field.args : magic_reads(field.args[n])

\* sample_input_scalar_field, Magic, at a position without an object: the
\* positions at which the sample of Magic is entered again, one for every
\* active spell whose field reads Magic, seen from the spell's caster
magic_calls(w, pos) ==
    { vsub(pos, person_pos(c[1])) :
         c \in { c \in casts(w.spells) :
                    magic_reads(spells_of(w.spells, c[1], c[2])[c[3]].field) } }

RECURSIVE magic_returns(_, _, _)
\* the sample of Magic at pos returns with no more than depth samples of
\* Magic nested in one another
magic_returns(w, pos, depth) ==
    \A p \in magic_calls(w, pos) : depth > 0 /\ magic_returns(w, p, depth - 1)

RECURSIVE elevation_scan(_)
\* sample_input_scalar_field, Elevation: the passes of
\* while test.y > 0.0 { ...; test.y -= 0.5 }, counted from test.y in halves
elevation_scan(halves) == IF halves > 0 THEN 1 + elevation_scan(halves - 1) ELSE 0

\* fields_ui plots the Magic field: the sample is taken when it returns, and
\* the thread overflows its stack when the samples of Magic nest without end
PlotMagic(pos) ==
    /\ "Magic" \in fields_display
    /\ IF magic_returns(Snapshot, pos, MaxDepth)
       THEN Sample("Magic", pos)
       ELSE /\ last' = Event("abort", "StackOverflow")
            /\ UNCHANGED <<stack, active_spells, progression, fields_display, mana,
                           conduits, controls>>

\* the words known in the runs that follow the Magic field
MagicWords == { "Mesi", "Kova", "Sa", "Ke" }

InitMagic == Start(MagicWords, FALSE, <<>>)

\* the process runs until it is aborted
Alive == last.op # "abort"

\* the frames of a running game whose Magic field is plotted
NextMagic ==
    \/ Alive /\ \E w \in Word : WordsGrid(w) /\ UNCHANGED <<frame, forces>>
    \/ Alive /\ Free /\ UNCHANGED <<frame, forces>>
    \/ Alive /\ Update /\ UNCHANGED frame
    \/ Alive /\ \E k \in VectorOutputFieldKind, i \in 0..MaxWords : Dispel(k, i) /\ UNCHANGED <<frame, forces>>
    \/ Alive /\ \E pos \in Positions : PlotMagic(pos) /\ UNCHANGED <<frame, forces>>

SpecMagic == InitMagic /\ [][NextMagic]_vars

\* ------------------------------------------------------------ one frame
\* Game::show, statement by statement: top_ui, fields_ui, the pause menu,
\* words_ui, controls_ui, stack_ui and the world updates that are due.

\* the state that the frame's handlers work on
Base == <<stack, active_spells, progression, fields_display, mana, conduits, controls, last>>

\* physics.dt(), in the unit of the ticker
Dt == 2

\* the time that passes between two frames, in the unit of the ticker
FrameTimes == { 1, 3 }

\* all::<OutputFieldKind>()
OutputKinds == <<"Gravity", "Force", "Write">>

\* the frame has done e
Logged(e) == Append(frame.log, e)

\* a frame that runs the world updates before it draws anything
show_next_update_first(pc) ==
    CASE pc = "top_ui" -> "update"
      [] pc = "update" -> "fields_ui"
      [] pc = "fields_ui" -> "words_ui"
      [] pc = "words_ui" -> "controls_ui"
      [] pc = "controls_ui" -> "stack_ui"
      [] pc = "stack_ui" -> "top_ui"

\* the order of the statements of Game::show: what runs after pc
show_next(pc) ==
    CASE pc = "top_ui" -> "fields_ui"
      [] pc = "fields_ui" -> "words_ui"
      [] pc = "words_ui" -> "controls_ui"
      [] pc = "controls_ui" -> "stack_ui"
      [] pc = "stack_ui" -> "update"
      [] pc = "update" -> "top_ui"

\* a top bar that adds the elapsed time whether or not the game is paused
top_ui_ticker_always(ticker, paused, dt) == ticker + dt

\* top_ui: if !self.ui_state.paused { self.ticker += dt }
top_ui_ticker(ticker, paused, dt) == IF paused THEN ticker ELSE ticker + dt

\* top_ui: the time since the last frame is added to the ticker of a game
\* that is not paused
TopUi ==
    /\ frame.pc = "top_ui"
    /\ \E dt \in FrameTimes :
          frame' = [frame EXCEPT !.pc = show_next("top_ui"),
                                 !.ticker = top_ui_ticker(frame.ticker, frame.paused, dt),
                                 !.todo = OutputKinds, !.log = <<>>,
                                 !.held = 0, !.ticks = 0,
                                 !.started_paused = frame.paused]
    /\ UNCHANGED <<Base, forces>>

\* fields_ui, the loop over the output kinds: the plot of a kind the player
\* has spells of is drawn, which samples the kind
FieldsPlot ==
    /\ frame.pc = "fields_ui"
    /\ frame.todo # <<>>
    /\ LET kind == Head(frame.todo)
       IN IF contains(active_spells, kind) /\ player_spell_words(active_spells, kind) # <<>>
          THEN /\ \E pos \in Positions : Sample(kind, pos)
               /\ frame' = [frame EXCEPT !.pc = "spell_words", !.log = Logged("sample")]
               /\ UNCHANGED forces
          ELSE /\ frame' = [frame EXCEPT !.todo = Tail(@)]
               /\ UNCHANGED <<Base, forces>>

\* a loop over the listed spells that reports the entry after the clicked one
to_dispel_next(words, click) ==
    LET hits == { i \in 0..(Len(words) - 1) : i = click }
    IN IF hits = {} THEN -1
       ELSE ((CHOOSE i \in hits : \A j \in hits : j <= i) + 1) % Len(words)

\* for (i, words) in words.enumerate() { if spell_words_ui(..) { to_dispel = Some(i) } }
\* with the button at place click clicked; -1 stands for None
to_dispel(words, click) ==
    LET hits == { i \in 0..(Len(words) - 1) : i = click }
    IN IF hits = {} THEN -1
       ELSE CHOOSE i \in hits : \A j \in hits : j <= i

\* fields_ui, next to the plot: the words of the kind's spells are listed,
\* and if let Some(i) = to_dispel { active_spells.remove(output_kind, i) }
FieldsWordsClick(click) ==
    /\ frame.pc = "spell_words"
    /\ LET kind == Head(frame.todo)
           i == to_dispel(player_spell_words(active_spells, kind), click)
       IN IF i >= 0
          THEN /\ Dispel(kind, i)
               /\ frame' = [frame EXCEPT !.pc = "fields_ui", !.todo = Tail(@),
                                         !.log = Logged("dispel")]
               /\ UNCHANGED forces
          ELSE /\ frame' = [frame EXCEPT !.pc = "fields_ui", !.todo = Tail(@)]
               /\ UNCHANGED <<Base, forces>>

\* the pointer is on one of the places of the list, or on none (-1)
FieldsWords == \E click \in -1..MaxWords : FieldsWordsClick(click)

\* the pause menu: Escape toggles paused, Resume clears it
PauseMenu ==
    /\ frame.pc = "fields_ui"
    /\ frame.todo = <<>>
    /\ \E escape \in BOOLEAN, resume \in BOOLEAN :
          LET paused == IF escape THEN ~frame.paused ELSE frame.paused
          IN frame' = [frame EXCEPT !.pc = show_next("fields_ui"),
                                    !.paused = IF paused /\ resume THEN FALSE ELSE paused]
    /\ UNCHANGED <<Base, forces>>

\* words_ui: a word button or Free is clicked, or nothing is
WordsUi ==
    /\ frame.pc = "words_ui"
    /\ \/ /\ \E w \in Word : WordsGrid(w)
          /\ frame' = [frame EXCEPT !.pc = show_next("words_ui"),
                                    !.log = Logged(IF active_spells' # active_spells
                                                   THEN "commit" ELSE "say")]
          /\ UNCHANGED forces
       \/ /\ Free
          /\ frame' = [frame EXCEPT !.pc = show_next("words_ui")]
          /\ UNCHANGED forces
       \/ /\ frame' = [frame EXCEPT !.pc = show_next("words_ui")]
          /\ UNCHANGED <<Base, forces>>

\* controls_ui
ControlsStep ==
    /\ frame.pc = "controls_ui"
    /\ ControlsUi
    /\ frame' = [frame EXCEPT !.pc = show_next("controls_ui")]
    /\ UNCHANGED forces

\* stack_ui: the fields of the stack are plotted, which samples them
StackUi ==
    /\ frame.pc = "stack_ui"
    /\ IF stack # <<>>
       THEN /\ \E pos \in Positions : Sample("Top", pos)
            /\ frame' = [frame EXCEPT !.pc = show_next("stack_ui"), !.log = Logged("sample"),
                                      !.held = frame.ticker]
            /\ UNCHANGED forces
       ELSE /\ frame' = [frame EXCEPT !.pc = show_next("stack_ui"), !.held = frame.ticker]
            /\ UNCHANGED <<Base, forces>>

\* a loop that leaves one tick in the ticker
update_due_strict(ticker) == ticker > Dt

\* while self.ticker >= self.world.physics.dt()
update_due(ticker) == ticker >= Dt

\* the body of the loop: self.world.update(); self.ticker -= dt
UpdateLoop ==
    /\ frame.pc = "update"
    /\ update_due(frame.ticker)
    /\ Update
    /\ frame' = [frame EXCEPT !.ticker = @ - Dt, !.ticks = @ + 1, !.log = Logged("update")]

\* the loop is left and show returns
FrameEnd ==
    /\ frame.pc = "update"
    /\ ~update_due(frame.ticker)
    /\ frame' = [frame EXCEPT !.pc = show_next("update")]
    /\ UNCHANGED <<Base, forces>>

\* the words known in the runs that follow the frame
FrameWords == { "Kova", "Ke" }

InitFrame == Start(FrameWords, FALSE, <<>>)

NextFrame ==
    \/ TopUi
    \/ FieldsPlot
    \/ FieldsWords
    \/ PauseMenu
    \/ WordsUi
    \/ ControlsStep
    \/ StackUi
    \/ UpdateLoop
    \/ FrameEnd

SpecFrame == InitFrame /\ [][NextFrame]_vars

\* the words known in the runs that follow the dispel
DispelWords == { "Kova", "Kovi", "Ke" }

\* the registry after the player has cast Kova Ke and then Kovi Ke
TwoCasts ==
    LET a == say(<<>>, NoActiveSpells, "Player", "Kova", TRUE)
        b == say(a.stack, a.spells, "Player", "Ke", TRUE)
        c == say(b.stack, b.spells, "Player", "Kovi", TRUE)
        d == say(c.stack, c.spells, "Player", "Ke", TRUE)
    IN d.spells

\* a frame starts while the player holds the two spells
InitDispel ==
    /\ stack = <<>>
    /\ active_spells = TwoCasts
    /\ progression = [known_words |-> DispelWords, known_fields |-> {},
                      free |-> TRUE, conduit |-> FALSE]
    /\ fields_display = {}
    /\ mana = [id \in PersonIds |-> MaxMana]
    /\ conduits = <<>>
    /\ controls = [x_slider |-> <<>>, y_slider |-> <<>>]
    /\ last = Event("say", "Ok")
    /\ frame = NewFrame
    /\ forces = [handle \in Objects |-> <<0, 0>>]

SpecDispel == InitDispel /\ [][NextFrame]_vars

\* the loop of the updates is sequential code: once entered it runs on
SpecFrameFair == SpecFrame /\ WF_vars(UpdateLoop) /\ WF_vars(FrameEnd)

\* ================================================================= claims
\* the replay of the stone i on the stack of the current state
Replayed(i) == conduit_replay(stack, conduits[i])

\* C1: when the replay of a stone's words fails at some word, the click
\* leaves the persisted stack, provenance included, exactly as it was
C1_FailedReplayKeepsStack ==
    [][\A i \in DOMAIN conduits :
          (ConduitCast(i) /\ Replayed(i).res # "Ok") => stack' = stack]_vars

\* a failed cast has been tried on a stone whose first words do succeed
C1_Witness ==
    /\ last.op = "cast" /\ last.res # "Ok"
    /\ \E i \in DOMAIN conduits :
          /\ Replayed(i).res # "Ok"
          /\ Replayed(i).said > 1
          /\ Replayed(i).stack # stack

RECURSIVE after(_, _, _)
\* the stack after the first n words of ws, each said on the result of the last
after(st, ws, n) ==
    IF n = 0 THEN st
    ELSE say(after(st, ws, n - 1), NoActiveSpells, "Player", ws[n], FALSE).stack

\* whether the n-th word of ws fails on the stack its predecessors leave
fails_at(st, ws, n) ==
    say(after(st, ws, n - 1), NoActiveSpells, "Player", ws[n], FALSE).res # "Ok"

\* C2: a pass says the words in order while it is running; the first word
\* that fails ends it, and no word after that one is said
C2_PassStopsAtFirstFailure ==
    \A i \in DOMAIN conduits :
        LET ws == conduits[i]
            r == Replayed(i)
            failing == { n \in 1..Len(ws) : fails_at(stack, ws, n) }
            first == CHOOSE n \in failing : \A m \in failing : n <= m
        IN IF \A n \in 1..Len(ws) : n \in failing => \E m \in 1..(n - 1) : m \in failing
           THEN r.res = "Ok" /\ r.said = Len(ws) /\ r.stack = after(stack, ws, Len(ws))
           ELSE /\ r.res # "Ok"
                /\ r.said = first
                /\ r.stack = after(stack, ws, first - 1)

\* a pass has failed at a word that is not the last of its stone
C2_Witness ==
    /\ last.op = "cast" /\ last.res # "Ok"
    /\ \E i \in DOMAIN conduits :
          Replayed(i).res # "Ok" /\ Replayed(i).said < Len(conduits[i])

\* the result of validating the word's function on the stack of the state
Validated(w) == validate_function_use(stack, function(w))

\* the result of saying the word on the stack and registry of the state
Said(w) == say(stack, active_spells, "Player", w, TRUE)

\* C3: validating the words of the grid, usable or not, leaves the stack, the
\* order of its entries and their word lists as they were
C3_ValidateKeepsStack == [][WordsShow => stack' = stack]_vars

\* a stack on which the validation of the known words gives all three results
C3_Witness ==
    /\ stack # <<>>
    /\ \E w \in progression.known_words : Validated(w) = "Ok"
    /\ \E w \in progression.known_words : Validated(w) = "StackUnderflow"
    /\ \E w \in progression.known_words : Validated(w) = "TypeMismatch"

\* C4: a word validates exactly when saying it succeeds, and a say that
\* fails leaves the stack and the registry as they were
C4_ValidateIffSay ==
    \A w \in Word :
        /\ (Validated(w) = "Ok") <=> (Said(w).res = "Ok")
        /\ Said(w).res # "Ok" => Said(w).stack = stack /\ Said(w).spells = active_spells

\* a word has been said, and on the stack it left some word fails for want
\* of operands and some word fails for their kinds
C4_Witness ==
    /\ last.op = "say"
    /\ \E w \in Word : Said(w).res = "StackUnderflow"
    /\ \E w \in Word : Said(w).res = "TypeMismatch"
    /\ \E w \in Word : Said(w).res = "Ok" /\ operands(function(w)) = 1

\* the operands of the categories of section 4.3
Consumed(f) ==
    CASE f.cat \in { "Nullary", "ReadField", "Control" } -> 0
      [] f.cat \in { "WriteField", "MathUnOp", "ScalarUnOp", "ToScalarOp" } -> 1
      [] f.cat \in { "HomoBinOp", "HeteroBinOp" } -> 2
      [] f.name \in { "Drop", "Duplicate" } -> 1
      [] f.name \in { "Swap", "Over" } -> 2

\* the values the categories of section 4.3 leave in place of their operands
Produced(f) ==
    CASE f.cat \in { "Nullary", "ReadField", "Control" } -> 1
      [] f.cat = "WriteField" -> 0
      [] f.cat \in { "MathUnOp", "ScalarUnOp", "ToScalarOp" } -> 1
      [] f.cat \in { "HomoBinOp", "HeteroBinOp" } -> 1
      [] f.name = "Drop" -> 0
      [] f.name = "Duplicate" -> 2
      [] f.name = "Swap" -> 2
      [] f.name = "Over" -> 3

Kind(n) == stack[Len(stack) + 1 - n].field.ty

\* the kinds section 4.3 requires of the top entries
Required(f) ==
    CASE f.cat = "WriteField" -> Kind(1) = "Vector"
      [] f.cat = "ScalarUnOp" -> Kind(1) = "Scalar"
      [] f.cat = "ToScalarOp" -> Kind(1) = "Vector"
      [] f.cat = "HomoBinOp" -> Kind(1) = Kind(2)
      [] f.cat = "HeteroBinOp" -> Kind(2) = "Scalar" /\ Kind(1) = "Vector"
      [] OTHER -> TRUE

\* C5: a stack with fewer entries than the function's operands gives
\* StackUnderflow whatever the entries are, a stack deep enough whose top
\* entries are not of the required kinds gives TypeMismatch; Add (the word Ma)
\* gives StackUnderflow on one scalar alone and TypeMismatch on a scalar and
\* a vector
C5_ValidateErrors ==
    /\ \A w \in Word :
          LET f == function(w)
          IN /\ Len(stack) < Consumed(f) => Validated(w) = "StackUnderflow"
             /\ Len(stack) >= Consumed(f) /\ ~ Required(f) => Validated(w) = "TypeMismatch"
    /\ Len(stack) = 1 /\ Kind(1) = "Scalar" => Validated("Ma") = "StackUnderflow"
    /\ Len(stack) >= 2 /\ Kind(1) # Kind(2) => Validated("Ma") = "TypeMismatch"

\* the stack holds a scalar under a vector
C5_Witness ==
    /\ last.op = "say"
    /\ Len(stack) = 2 /\ Kind(2) = "Scalar" /\ Kind(1) = "Vector"

\* C6: a say that succeeds puts the values its category produces in place of
\* the operands it consumes, and leaves the entries below them as they were
C6_SayReplacesTop ==
    \A w \in Word :
        LET f == function(w)
            r == Said(w)
        IN r.res = "Ok" =>
              /\ Len(stack) >= Consumed(f)
              /\ Len(r.stack) = Len(stack) - Consumed(f) + Produced(f)
              /\ Below(r.stack, Produced(f)) = Below(stack, Consumed(f))

\* a word has been said on a stack of two entries or more, on which a binary
\* operator and the combinators succeed
C6_Witness ==
    /\ last.op = "say"
    /\ Len(stack) >= 2
    /\ \E w \in Word : function(w).cat = "HomoBinOp" /\ Said(w).res = "Ok"
    /\ Said("Rovo").res = "Ok"

RECURSIVE one_at_a_time(_, _, _)
\* the words of ws said one by one, each by a click on its button
one_at_a_time(st, sp, ws) ==
    IF ws = <<>> THEN [ok |-> TRUE, stack |-> st]
    ELSE LET r == say(st, sp, "Player", Head(ws), TRUE)
         IN IF r.res # "Ok" THEN [ok |-> FALSE, stack |-> st]
            ELSE one_at_a_time(r.stack, r.spells, Tail(ws))

\* the word sequences tried on every state: every word, every two known
\* words, the words of the stones
Sequences ==
    { <<w>> : w \in Word } \cup { <<v, w>> : v, w \in progression.known_words }
        \cup { conduits[i] : i \in DOMAIN conduits }

\* C7: when every word of a sequence succeeds said one at a time, the cast of
\* a stone that holds the sequence leaves the same stack
C7_ReplayEqualsOneAtATime ==
    \A ws \in Sequences :
        LET o == one_at_a_time(stack, active_spells, ws)
        IN o.ok => /\ conduit_replay(stack, ws).res = "Ok"
                   /\ conduit_stack(stack, ws) = o.stack

\* a stone has been cast with success on a stack that was not empty
C7_Witness ==
    /\ last.op = "cast" /\ last.res = "Ok"
    /\ \E i \in DOMAIN conduits :
          /\ conduits[i] # <<>>
          /\ Len(stack_words(stack)) > Len(conduits[i])

\* the categories that build a value: the literals, the reads and the operators
Builds(f) ==
    f.cat \in { "Nullary", "ReadField", "Control", "MathUnOp", "ScalarUnOp",
                "ToScalarOp", "HomoBinOp", "HeteroBinOp" }

\* the top n entries of the stack, bottom first
TopEntries(n) == SubSeq(stack, Len(stack) + 1 - n, Len(stack))

WriteWords == { w \in Word : function(w).cat = "WriteField" }

\* C9: the click of a write word takes the top value off the stack and adds
\* one active spell, that field with its words, at the end of the player's
\* list of the word's output kind; no other list of any caster or kind changes
C9_WriteCommitsTop ==
    [][\A w \in WriteWords :
          WordsGrid(w) =>
             /\ stack' = Below(stack, 1)
             /\ spells_of(active_spells', "Player", function(w).name)
                  = Append(spells_of(active_spells, "Player", function(w).name),
                           ActiveSpell(Top(stack).field, Top(stack).words))
             /\ \A id \in PersonIds, k \in VectorOutputFieldKind :
                   <<id, k>> # <<"Player", function(w).name>> =>
                      spells_of(active_spells', id, k) = spells_of(active_spells, id, k)
             /\ active_spells'.scalars = active_spells.scalars]_vars

\* the player has written a spell while an NPC holds spells of two kinds
C9_Witness ==
    /\ last.op = "say"
    /\ spells_of(active_spells, "Player", "Gravity") # <<>>
    /\ spells_of(active_spells, "Npc1", "Gravity") # <<>>
    /\ spells_of(active_spells, "Npc1", "Force") # <<>>

\* C10: a commit, by the player's write word or by an NPC, adds its entry at
\* the end of one list: every list of the registry keeps its earlier entries
\* in their order, and one list is one entry longer
C10_CommitAppends ==
    [][(\/ \E w \in WriteWords : WordsGrid(w)
        \/ \E id \in Npcs, k \in NpcKinds, f \in NpcFields : NpcCast(id, k, f)) =>
          /\ \A id \in PersonIds, k \in VectorOutputFieldKind :
                LET old == spells_of(active_spells, id, k)
                    new == spells_of(active_spells', id, k)
                IN Len(new) >= Len(old) /\ SubSeq(new, 1, Len(old)) = old
          /\ \E id \in PersonIds, k \in VectorOutputFieldKind :
                Len(spells_of(active_spells', id, k))
                   = Len(spells_of(active_spells, id, k)) + 1]_vars

\* two different spells of one kind of the player coexist, the NPC has two too
C10_Witness ==
    LET mine == spells_of(active_spells, "Player", "Gravity")
    IN /\ Len(mine) = 2
       /\ mine[1] # mine[2]
       /\ \E k \in NpcKinds : Len(spells_of(active_spells, "Npc1", k)) = 2

\* the list without its entry of index i (counted from 0)
Without(list, i) ==
    [n \in 1..(Len(list) - 1) |-> IF n <= i THEN list[n] ELSE list[n + 1]]

\* C11: the listing of the player's spells of a kind gives their words in the
\* order of the commits (a commit adds its words at the end of the listing);
\* a dispel of index i removes the spell listed at i and leaves every other
\* spell of every caster and kind in place and in order
C11_DispelByIndex ==
    [][/\ \A k \in VectorOutputFieldKind :
             LET list == spells_of(active_spells, "Player", k)
             IN player_spell_words(active_spells, k) = [n \in 1..Len(list) |-> list[n].words]
       /\ \A w \in WriteWords :
             WordsGrid(w) =>
                player_spell_words(active_spells', function(w).name)
                   = Append(player_spell_words(active_spells, function(w).name),
                            Top(stack).words)
       /\ \A k \in VectorOutputFieldKind, i \in 0..MaxWords :
             Dispel(k, i) =>
                /\ player_spell_words(active_spells', k)
                     = Without(player_spell_words(active_spells, k), i)
                /\ spells_of(active_spells', "Player", k)
                     = Without(spells_of(active_spells, "Player", k), i)
                /\ \A id \in PersonIds, j \in VectorOutputFieldKind :
                      <<id, j>> # <<"Player", k>> =>
                         spells_of(active_spells', id, j) = spells_of(active_spells, id, j)]_vars

\* the spell of two words is what a dispel left of the player's two spells of
\* a kind, while the NPC holds spells of that kind too
C11_Witness ==
    /\ last.op = "dispel"
    /\ player_spell_words(active_spells, "Gravity") = << <<"Kova", "Na">> >>
    /\ spells_of(active_spells, "Npc1", "Gravity") # <<>>

\* whether the person can cast once the work of the tick is paid
CastsAfter(id, work) == can_cast(do_work(mana[id], work))

\* the kinds registered to the person: the keys of the person's map
Registered(spells, id) ==
    IF id \in DOMAIN spells.vectors THEN DOMAIN spells.vectors[id] ELSE {}

World == [mana |-> mana, spells |-> active_spells]

\* C13: in one update step both maps of a caster who cannot cast become empty
\* and every caster who can cast keeps its spells; the clearing of one caster
\* (the loop body for that caster) touches no other caster's spells
C13_ClearIsCasterScoped ==
    [][\A work \in 0..1 :
          /\ Tick(work) =>
                \A id \in PersonIds :
                   IF CastsAfter(id, work)
                   THEN /\ Registered(active_spells', id) = Registered(active_spells, id)
                        /\ \A k \in VectorOutputFieldKind :
                              spells_of(active_spells', id, k) = spells_of(active_spells, id, k)
                   ELSE /\ active_spells'.scalars[id] = EmptyMap
                        /\ active_spells'.vectors[id] = EmptyMap
          /\ \A id, o \in PersonIds :
                LET w == update_person(World, id, work)
                IN o # id =>
                      /\ Registered(w.spells, o) = Registered(active_spells, o)
                      /\ \A k \in VectorOutputFieldKind :
                            spells_of(w.spells, o, k) = spells_of(active_spells, o, k)]_vars

\* an update has cleared the player while the NPC keeps its spells
C13_Witness ==
    /\ last.op = "update"
    /\ "Player" \in DOMAIN active_spells.vectors
    /\ Registered(active_spells, "Player") = {}
    /\ mana["Player"] < MaxMana
    /\ \E k \in NpcKinds : spells_of(active_spells, "Npc1", k) # <<>>

\* the sum of the claim, spell by spell: the sample of the spell's field
\* relative to its caster, times the caster's field scale
RECURSIVE Sum(_, _, _)
Sum(todo, kind, pos) ==
    IF todo = {} THEN ZERO
    ELSE LET c == CHOOSE c \in todo : TRUE
             spell == spells_of(active_spells, c[1], c[2])[c[3]]
             rest == Sum(todo \ {c}, kind, pos)
         IN IF c[2] # kind THEN rest
            ELSE vadd(rest, vscale(sample_relative(Snapshot, spell.field, c[1], pos),
                                   field_scale(Snapshot, c[1])))

\* the registry without the spells of the other kinds
OnlyKind(kind) ==
    [active_spells EXCEPT !.vectors =
        [id \in DOMAIN active_spells.vectors |->
            [k \in DOMAIN active_spells.vectors[id] \cap {kind} |->
                active_spells.vectors[id][k]]]]

\* C14: the sample of an output kind at a position is the sum, over every
\* caster and every active spell of that kind, of the spell's field sampled
\* relative to the caster times the caster's field scale; the spells of other
\* kinds add nothing, and without a spell of the kind it is the zero vector
C14_OutputIsScaledSum ==
    \A kind \in VectorOutputFieldKind, pos \in Positions :
        LET v == sample_output_vector_field(Snapshot, kind, pos)
        IN /\ v = Sum(casts(active_spells), kind, pos)
           /\ v = sample_output_vector_field([Snapshot EXCEPT !.spells = OnlyKind(kind)],
                                             kind, pos)
           /\ (\A id \in PersonIds : spells_of(active_spells, id, kind) = <<>>) => v = ZERO

\* two casters hold Gravity spells, one of them two, the NPC holds a Force
\* spell too, a field scale is not 1, and the Gravity sample depends on the
\* position
C14_Witness ==
    /\ spells_of(active_spells, "Player", "Gravity") # <<>>
    /\ Len(spells_of(active_spells, "Npc1", "Gravity")) = 2
    /\ spells_of(active_spells, "Npc1", "Force") # <<>>
    /\ mana["Npc1"] = 2
    /\ sample_output_vector_field(Snapshot, "Gravity", <<0, 0>>)
          # sample_output_vector_field(Snapshot, "Gravity", <<2, 1>>)

\* the only active spell of the kind is a uniform vector field of the caster,
\* whose field scale is 1
OnlyUniform(kind, id) ==
    /\ { c \in casts(active_spells) : c[2] = kind } = { <<id, kind, 1>> }
    /\ spells_of(active_spells, id, kind)[1].field.op = "Uniform"
    /\ field_scale(Snapshot, id) = 1

\* C15: when the only active spell of an output kind is a uniform vector v of
\* a caster of field scale 1, the kind samples to v at every position; once
\* that entry is dispelled, the kind samples to the zero vector
C15_OneUniformSpell ==
    [][\A kind \in VectorOutputFieldKind :
          /\ \A id \in PersonIds :
                OnlyUniform(kind, id) =>
                   LET f == spells_of(active_spells, id, kind)[1].field
                   IN /\ \A pos \in Positions :
                            sample_output_vector_field(Snapshot, kind, pos) = <<f.x, f.y>>
                      /\ \A pos \in Positions :
                            sample_output_vector_field(
                               [Snapshot EXCEPT !.spells = remove(active_spells, id, kind, 0)],
                               kind, pos) = ZERO
          /\ \A i \in 0..MaxWords :
                Dispel(kind, i) /\ OnlyUniform(kind, "Player") =>
                   \A pos \in Positions :
                      sample_output_vector_field(
                         [spells |-> active_spells', mana |-> mana', controls |-> controls'],
                         kind, pos) = ZERO]_vars

\* the player, of field scale 1, has dispelled the last Gravity spell there
\* was, and Gravity samples to the zero vector
C15_Witness ==
    /\ last.op = "dispel"
    /\ field_scale(Snapshot, "Player") = 1
    /\ "Gravity" \in Registered(active_spells, "Player")
    /\ \A id \in PersonIds : spells_of(active_spells, id, "Gravity") = <<>>
    /\ sample_output_vector_field(Snapshot, "Gravity", <<2, 1>>) = ZERO

\* C16: a sample of a stack field or of an input or output kind, at any
\* position, leaves the registry, the stack, the controls, the people's mana
\* and the player's progression as they were
C16_SamplingChangesNothing ==
    [][\A what \in Plotted, pos \in Positions :
          Sample(what, pos) =>
             /\ active_spells' = active_spells
             /\ stack' = stack
             /\ controls' = controls
             /\ mana' = mana
             /\ progression' = progression
             /\ conduits' = conduits]_vars

\* several samples were taken while the player has a value on the stack, both
\* casters hold spells and a slider has a value
C16_Witness ==
    /\ last.op = "sample"
    /\ last.seq = "between"
    /\ stack # <<>>
    /\ spells_of(active_spells, "Player", "Gravity") # <<>>
    /\ spells_of(active_spells, "Npc1", "Gravity") # <<>>
    /\ controls.x_slider # <<>>

Then(st, w) == say(st, active_spells, "Player", w, TRUE).stack

\* whether the word can be said on the given stack
Can(st, w) == say(st, active_spells, "Player", w, TRUE).res = "Ok"

\* the words of the four combinators
DropWord == CHOOSE w \in Word : function(w) = Fn("Combinator1", "Drop")
DuplicateWord == CHOOSE w \in Word : function(w) = Fn("Combinator1", "Duplicate")
SwapWord == CHOOSE w \in Word : function(w) = Fn("Combinator2", "Swap")
OverWord == CHOOSE w \in Word : function(w) = Fn("Combinator2", "Over")

\* C18: on a stack of one value or more, whatever the kind of its top,
\* Duplicate and then Drop both succeed and leave the stack, entries and word
\* lists, as it was before Duplicate
C18_DuplicateDropCancels ==
    stack # <<>> =>
       /\ Can(stack, DuplicateWord)
       /\ Can(Then(stack, DuplicateWord), DropWord)
       /\ Then(Then(stack, DuplicateWord), DropWord) = stack

\* a stack of two different entries whose top is a vector built by two words
C18_Witness ==
    /\ Len(stack) >= 2
    /\ Top(stack).field.ty = "Vector"
    /\ Len(Top(stack).words) >= 2
    /\ Second(stack).field.ty = "Scalar"

\* C19: on a stack of two values or more Swap succeeds twice in a row, and the
\* second Swap gives back the stack as it was
C19_SwapTwiceIsIdentity ==
    Len(stack) >= 2 =>
       /\ Can(stack, SwapWord)
       /\ Can(Then(stack, SwapWord), SwapWord)
       /\ Then(Then(stack, SwapWord), SwapWord) = stack

\* a stack of three entries whose top two differ in kind and in words
C19_Witness ==
    /\ Len(stack) = 3
    /\ Top(stack).field.ty # Second(stack).field.ty
    /\ Top(stack).words # Second(stack).words

\* C20: on a stack that ends in a, b (b on top) Swap leaves ..., b, a; Over
\* leaves ..., a, b, a; Duplicate leaves ..., a, b, b; Drop leaves ..., a.  An
\* entry that was duplicated has the field expression of its original.
C20_CombinatorEffects ==
    Len(stack) >= 2 =>
       LET rest == Below(stack, 2)
           a == Second(stack)
           b == Top(stack)
       IN /\ Can(stack, SwapWord) /\ Then(stack, SwapWord) = rest \o <<b, a>>
          /\ Can(stack, OverWord) /\ Then(stack, OverWord) = rest \o <<a, b, a>>
          /\ Can(stack, DuplicateWord) /\ Then(stack, DuplicateWord) = rest \o <<a, b, b>>
          /\ Can(stack, DropWord) /\ Then(stack, DropWord) = rest \o <<a>>
          /\ Top(Then(stack, DuplicateWord)).field = b.field
          /\ Top(Then(stack, OverWord)).field = a.field

\* a word has been said and the stack has the shape Over leaves: a, b, a with
\* a and b of different kinds
C20_Witness ==
    /\ last.op = "say"
    /\ Len(stack) = 3
    /\ Top(stack) = stack[1]
    /\ Second(stack).field.ty # Top(stack).field.ty

\* the vector fields a Filter node may gate, and the scalar fields it may be
\* gated by
FilterVectors ==
    { VectorUniform(0, 1), VectorUniform(2, 0 - 1),
      BinNode("Mul", "Vector", ScalarLeaf("X"), VectorUniform(1, 0)) }
FilterMasks ==
    { ScalarUniform(0), ScalarUniform(1), UnNode("Neg", "Scalar", ScalarUniform(1)),
      ScalarLeaf("X"), ScalarLeaf("Y"), control_field("XSlider"), input_field("Magic") }

\* the Filter nodes among the active spells
FilterCasts ==
    { c \in casts(active_spells) :
         spells_of(active_spells, c[1], c[2])[c[3]].field.op = "Filter" }

AddOperands == 0..3

\* the two entries on top of st are uniform scalars
TwoUniformScalars(st) ==
    /\ Len(st) >= 2
    /\ \A e \in { Top(st), Second(st) } : e.field.op = "Uniform" /\ e.field.ty = "Scalar"

\* Ma said on st leaves one scalar, where the top two entries were, that
\* samples at every position to the sum of the two uniform scalars
AddsTopTwo(st) ==
    LET r == say(st, active_spells, "Player", "Ma", TRUE)
    IN /\ r.res = "Ok"
       /\ Len(r.stack) = Len(st) - 1
       /\ Below(r.stack, 1) = Below(st, 2)
       /\ Top(r.stack).field.ty = "Scalar"
       /\ \A pos \in Positions :
             sample(Snapshot, Top(r.stack).field, pos) = Second(st).field.x + Top(st).field.x
       /\ r.spells = active_spells

\* C22: once two uniform scalars a and b are pushed, Ma leaves a single scalar
\* field in their place that samples to a + b at every position, 2 and 3
\* giving 5, and both operands are gone: on every stack the player has with
\* two uniform scalars on top, and on every stack with a and b pushed on it
C22_AddOfUniforms ==
    /\ function("Ma") = Fn("HomoBinOp", "Add")
    /\ TwoUniformScalars(stack) => AddsTopTwo(stack)
    /\ \A a, b \in AddOperands :
          AddsTopTwo(stack \o <<Item(ScalarUniform(a), <<"Ti">>),
                                Item(ScalarUniform(b), <<"Ti">>)>>)
    /\ LET r == say(<<Item(ScalarUniform(2), <<"Tu">>), Item(ScalarUniform(3), <<"Ti">>)>>,
                     active_spells, "Player", "Ma", TRUE)
       IN Len(r.stack) = 1 /\ \A pos \in Positions :
                                  sample(Snapshot, Top(r.stack).field, pos) = 5

\* the player has said Ti, Ti and Ma: the stack holds the one sum, which
\* samples to 2
C22_Witness ==
    /\ last = Event("say", "Ok")
    /\ Len(stack) = 1
    /\ Top(stack).words = <<"Ti", "Ti", "Ma">>
    /\ Top(stack).field.op = "Add"
    /\ \A pos \in Positions : sample(Snapshot, Top(stack).field, pos) = 2

\* the control words and the control each of them reads
ControlWords == { w \in Word : function(w).cat = "Control" }

\* the entries of st that a control word alone has pushed
ControlItems(st) == { n \in DOMAIN st : Len(st[n].words) = 1 /\ st[n].words[1] \in ControlWords }

\* the values the entry n of st samples to in the world w, over the positions
SampleOf(w, st, n) ==
    { sample(w, st[n].field, pos) : pos \in Positions }

\* C23 as the specification states it: a control word pushes the Uniform
\* field of the control's value at that moment, and a later change of the
\* slider does not change what the pushed entry samples to
C23_AsStated ==
    [][/\ \A w \in ControlWords :
             WordsGrid(w) /\ last' = Event("say", "Ok") =>
                Top(stack').field
                   = ScalarUniform(controls_get(controls, function(w).name))
       /\ ControlsUi =>
             \A n \in ControlItems(stack) :
                SampleOf([spells |-> active_spells', mana |-> mana', controls |-> controls'],
                         stack', n) = SampleOf(Snapshot, stack, n)]_vars

\* C23: a control word pushes exactly one scalar, on top of the stack as it
\* was, and that scalar is a reference to the control, which controls_ui
\* finds in it; the entry samples at every position to the value the control
\* has when the sample is taken, 0 while the control has none, so that it
\* follows every later change of the slider
C23_ControlIsReadWhenSampled ==
    [][/\ \A w \in ControlWords :
             WordsGrid(w) /\ last' = Event("say", "Ok") =>
                /\ Len(stack') = Len(stack) + 1
                /\ Below(stack', 1) = stack
                /\ Top(stack').field.ty = "Scalar"
                /\ Top(stack').words = <<w>>
                /\ field_controls(Top(stack').field) = { function(w).name }
       /\ \A n \in ControlItems(stack) :
             SampleOf(Snapshot, stack, n)
                = { controls_get(controls, function(stack[n].words[1]).name) }
       /\ ControlsUi =>
             \A n \in ControlItems(stack') :
                SampleOf([spells |-> active_spells', mana |-> mana', controls |-> controls'],
                         stack', n)
                   = { controls_get(controls', function(stack'[n].words[1]).name) }]_vars

\* the player has said Sila while the slider had no value, and has then moved
\* the slider to 1: the entry, which sampled to 0, now samples to 1
C23_Witness ==
    /\ last = Event("controls", "Ok")
    /\ stack # <<>>
    /\ Top(stack).words = <<"Sila">>
    /\ controls.x_slider = <<1>>
    /\ SampleOf(Snapshot, stack, Len(stack)) = {1}
    /\ SampleOf([Snapshot EXCEPT !.controls = [x_slider |-> <<>>, y_slider |-> <<>>]],
                stack, Len(stack)) = {0}

\* the results Stack::say can end with
SayResults == { "Ok", "StackUnderflow", "TypeMismatch" }

\* a click on the stone i persists the stack its replay has built
Persisted(i) == ConduitCast(i) /\ last' = Event("cast", "Ok")

\* C24 as the specification states it: whenever a word is applied to the
\* player's persisted stack, by a word button or by the cast of a stone, the
\* player's available mana is at least the cost of that word
C24_AsStated ==
    [][/\ \A w \in Word : WordsGrid(w) => capped_mana("Player") >= cost(w)
       /\ \A i \in DOMAIN conduits :
             Persisted(i) =>
                \A n \in DOMAIN conduits[i] : capped_mana("Player") >= cost(conduits[i][n])]_vars

\* C24: whenever a word button applies or reveals its word, the player's
\* available mana is at least the cost of the word; the stack machine never
\* rejects a word for its cost: it ends with Ok, StackUnderflow or
\* TypeMismatch, and with Ok whenever the word is valid on the stack,
\* whatever the word costs; the cast of a stone persists the stack of its
\* replay, which is Ok, and leaves the mana as it is
C24_ButtonsCheckCost ==
    [][/\ \A w \in Word : WordsGrid(w) => capped_mana("Player") >= cost(w)
       /\ \A w \in Word :
             LET r == say(stack, active_spells, "Player", w, TRUE)
             IN /\ r.res \in SayResults
                /\ validate_function_use(stack, function(w)) = "Ok" => r.res = "Ok"
       /\ \A i \in DOMAIN conduits :
             Persisted(i) =>
                /\ replay(stack, conduits[i]).res = "Ok"
                /\ stack' = replay(stack, conduits[i]).stack
                /\ mana' = mana]_vars

\* the cast of a stone has put the word Tu, of cost 2, on the player's stack
\* while the player's available mana is 1 and the button of Tu is disabled
C24_Witness ==
    /\ last = Event("cast", "Ok")
    /\ capped_mana("Player") = 1
    /\ conduits[1] = <<"Tu">>
    /\ stack # <<>>
    /\ Top(stack).words = <<"Tu">>
    /\ cost("Tu") = 2
    /\ ~enabled("Tu", TRUE)

\* the categories of Function and the costs of the table
FunctionCategories ==
    { "Nullary", "ReadField", "WriteField", "Control", "MathUnOp", "ScalarUnOp",
      "ToScalarOp", "HomoBinOp", "HeteroBinOp", "Combinator1", "Combinator2" }
Costs == { 1, 2, 3, 5, 10 }

\* C25: the word table is total and pure: every word has one function, of
\* one of the categories, and one cost, no lookup fails, and whatever the
\* handlers do to the stack, the registry, the mana, the progression and the
\* controls, every lookup gives after the step what it gave before it
C25_WordTableTotalPure ==
    [][/\ DOMAIN Lookup = Word
       /\ \A w \in Word :
             /\ function(w).cat \in FunctionCategories
             /\ cost(w) \in Costs
             /\ Lookup[w] = <<function(w), cost(w)>>
       /\ Lookup' = Lookup]_vars

\* the table has been looked up, for the buttons and for a say, in a world
\* where the player has a stack and an active spell, an NPC has spells and
\* the player's mana has changed
C25_Witness ==
    /\ last = Event("say", "Ok")
    /\ stack # <<>>
    /\ spells_of(active_spells, "Player", "Gravity") # <<>>
    /\ spells_of(active_spells, "Npc1", "Force") # <<>>
    /\ mana["Player"] < MaxMana
    /\ Lookup["Ke"] = <<Fn("WriteField", "Gravity"), 1>>

\* C26: the Free button empties the player's stack and changes nothing else:
\* the active spells of the player and of every other caster, the mana of
\* every caster, the known words and fields, the shown fields, the stones and
\* the controls are after the click what they were before it
C26_FreeOnlyEmptiesStack ==
    [][Free =>
          /\ stack' = <<>>
          /\ active_spells' = active_spells
          /\ mana' = mana
          /\ progression' = progression
          /\ fields_display' = fields_display
          /\ conduits' = conduits
          /\ controls' = controls]_vars

\* Free was clicked while the player and the NPC hold active spells: the
\* stack is empty and the spells are still there
C26_Witness ==
    /\ last = Event("free", "Ok")
    /\ stack = <<>>
    /\ spells_of(active_spells, "Player", "Gravity") # <<>>
    /\ spells_of(active_spells, "Npc1", "Gravity") # <<>>
    /\ mana["Player"] < MaxMana

\* the heights from which the Elevation scan is started
ScanHeights == 0 - 1 .. 3

\* C27 as the specification states it: every sample returns, whatever the
\* registry holds and whatever the position: the sample of Magic returns even
\* when an active spell's field reads Magic, no plot aborts the process, and
\* the Elevation scan ends, after two passes for every unit of height
C27_AsStated ==
    /\ Alive
    /\ \A pos \in Positions : magic_returns(Snapshot, pos, MaxDepth)
    /\ \A y \in ScanHeights : elevation_scan(2 * y) = IF y > 0 THEN 2 * y ELSE 0

\* the part of C27 that holds: the sample of Magic returns, without a nested
\* sample of Magic, exactly when no active spell's field reads Magic, and the
\* Elevation scan ends for every height
C27_ReturnsUnlessMagicReadsMagic ==
    /\ \A pos \in Positions :
          magic_returns(Snapshot, pos, MaxDepth)
             <=> \A c \in casts(active_spells) :
                    ~magic_reads(spells_of(active_spells, c[1], c[2])[c[3]].field)
    /\ \A y \in ScanHeights : elevation_scan(2 * y) = IF y > 0 THEN 2 * y ELSE 0

\* what the frame has done so far holds a write of the registry between two
\* samples
WriteBetweenSamples(log) ==
    \E i, j, k \in DOMAIN log :
        /\ i < j /\ j < k
        /\ log[i] = "sample" /\ log[j] \in { "commit", "dispel" } /\ log[k] = "sample"

\* the step is a sample taken by a plot
Sampling == \E what \in Plotted \cup VectorOutputFieldKind, pos \in Positions : Sample(what, pos)

\* C28 as the specification states it: the registry is written only while the
\* world updates of the frame run, and within a frame no commit and no dispel
\* falls between two samples taken for the plots
C28_AsStated ==
    [][/\ active_spells' # active_spells => frame.pc = "update"
       /\ ~WriteBetweenSamples(frame'.log)]_vars

\* C28: a step that writes the registry is a dispel of fields_ui, next to the
\* plot of its kind, a commit by a write word of words_ui, or a world update,
\* which is the only place where a caster's spells are cleared; a step that
\* samples leaves the registry as it is
C28_RegistryWriters ==
    [][/\ active_spells' # active_spells =>
             \/ /\ frame.pc = "spell_words"
                /\ \E i \in 0..MaxWords : Dispel(Head(frame.todo), i)
             \/ /\ frame.pc = "words_ui"
                /\ \E w \in Word : function(w).cat = "WriteField" /\ WordsGrid(w)
             \/ /\ frame.pc = "update"
                /\ Update
       /\ (\E id \in PersonIds, k \in VectorOutputFieldKind :
              /\ Len(spells_of(active_spells', id, k)) < Len(spells_of(active_spells, id, k))
              /\ frame.pc # "spell_words")
          => frame.pc = "update"
       /\ Sampling => active_spells' = active_spells]_vars

\* in one frame the Gravity plot was sampled, then a write word committed a
\* spell, then the plot of the stack was sampled, and no update has run yet
C28_Witness ==
    /\ frame.pc = "update"
    /\ frame.log = <<"sample", "commit", "sample">>
    /\ Len(spells_of(active_spells, "Player", "Gravity")) = 2
    /\ stack # <<>>

\* the place of what a frame does in the order the specification gives: the
\* word application, then the world updates, then the samples
StatedRank(e) ==
    CASE e \in { "say", "commit" } -> 1
      [] e = "update" -> 2
      [] e = "sample" -> 3
      [] OTHER -> 0

\* C29 as the specification states it: in every frame all word application
\* comes first, then the world updates, then the samples for the plots
C29_AsStated ==
    \A i, j \in DOMAIN frame.log :
        i < j /\ StatedRank(frame.log[i]) > 0 /\ StatedRank(frame.log[j]) > 0
           => StatedRank(frame.log[i]) <= StatedRank(frame.log[j])

\* C29: in every frame the plots of fields_ui are sampled first, each dispel
\* right after the plot of its kind, then comes the one word application of
\* words_ui, then the plot of the stack is sampled, and the world updates run
\* last: nothing follows an update but an update, nothing follows the word
\* application but the sample of the stack and the updates, and every sample
\* of a frame is taken before the updates of that frame
C29_FrameOrder ==
    /\ \A i, j \in DOMAIN frame.log :
          i < j =>
             /\ frame.log[i] = "update" => frame.log[j] = "update"
             /\ frame.log[i] \in { "say", "commit" } => frame.log[j] \in { "sample", "update" }
             /\ frame.log[j] = "sample" => frame.log[i] # "update"
    /\ \A i \in DOMAIN frame.log :
          frame.log[i] = "dispel" => i > 1 /\ frame.log[i - 1] = "sample"
    /\ Cardinality({ i \in DOMAIN frame.log : frame.log[i] \in { "say", "commit" } }) <= 1
    /\ frame.pc \notin { "update", "top_ui" } => \A i \in DOMAIN frame.log : frame.log[i] # "update"

\* a frame has sampled the Gravity plot, dispelled a spell, applied a word,
\* sampled the plot of the stack and then run two world updates
C29_Witness ==
    /\ frame.pc = "top_ui"
    /\ frame.log = <<"sample", "dispel", "say", "sample", "update", "update">>

\* C30: the ticker is never negative; every pass of the loop runs one world
\* update and takes one dt out of the ticker; the loop ends, having run one
\* update for every whole dt the ticker held when it was entered, and leaves
\* the rest in the ticker: after every frame 0 <= ticker < dt
C30_Accumulator ==
    /\ [][/\ frame.ticker >= 0
          /\ frame.pc = "top_ui" => frame.ticker < Dt
          /\ frame.pc = "update" => frame.held = frame.ticker + frame.ticks * Dt
          /\ UpdateLoop => /\ frame.ticker >= Dt
                           /\ frame'.ticker = frame.ticker - Dt
                           /\ last' = Event("update", "Ok")
          /\ FrameEnd => /\ frame.ticks = frame.held \div Dt
                         /\ frame'.ticker = frame.held % Dt
                         /\ 0 <= frame'.ticker /\ frame'.ticker < Dt]_vars
    /\ (frame.pc = "update") ~> (frame.pc = "top_ui")

\* a frame that found four units in the ticker, two whole dt, has run two
\* world updates and has left nothing in the ticker
C30_Witness ==
    /\ frame.pc = "top_ui"
    /\ frame.held = 4
    /\ frame.ticks = 2
    /\ frame.ticker = 0
    /\ last = Event("update", "Ok")

\* the sample of the Force output at the place of a body, before the tick
ForceSample(handle) == sample_vector_field(Snapshot, "Force", object_pos(handle))

\* C31 as the specification states it: in every tick the force on each body
\* is the current sample of the Force output at the body's position, and it
\* is zero in a tick in which no Force output is registered
C31_AsStated ==
    [][Update =>
          \A handle \in Objects :
              forces'[handle] = IF contains(active_spells, "Force")
                                THEN ForceSample(handle) ELSE ZERO]_vars

\* the part of C31 that holds: in a tick in which the Force output is
\* registered the force on each body is the current sample, whatever the
\* force was before; in a tick in which it is not, the force is left as it was
C31_ForceIsSampleWhileRegistered ==
    [][Update =>
          \A handle \in Objects :
              forces'[handle] = IF contains(active_spells, "Force")
                                THEN ForceSample(handle) ELSE forces[handle]]_vars

\* a body that carries a force while no Force output is registered
C31_StaleForce ==
    /\ last.op = "update"
    /\ ~contains(active_spells, "Force")
    /\ \E handle \in Objects : forces[handle] # ZERO

\* the words that read an input field
ReadWords == { w \in Word : function(w).cat = "ReadField" }

\* C32: the first click on an enabled read-field word whose kind is not yet
\* a known field adds the kind to the known fields and creates its display
\* entry without saying the word (stack and registry stay as they are);
\* a known field is never forgotten, so every later click says the word,
\* which pushes one field, the input of that kind
C32_FirstClickReveals ==
    [][/\ progression.known_fields \subseteq progression'.known_fields
       /\ \A w \in ReadWords :
             WordsGrid(w) =>
                LET kind == function(w).name
                IN IF kind \notin progression.known_fields
                   THEN /\ progression'.known_fields = progression.known_fields \cup {kind}
                        /\ kind \in fields_display'
                        /\ stack' = stack
                        /\ active_spells' = active_spells
                   ELSE /\ last' = Event("say", "Ok")
                        /\ stack' = Append(stack, Item(input_field(kind), <<w>>))
                        /\ active_spells' = active_spells
                        /\ progression' = progression]_vars

\* the field was revealed by a first click and a later click has pushed it
C32_Witness ==
    /\ "Elevation" \in progression.known_fields
    /\ "Elevation" \in fields_display
    /\ last = Event("say", "Ok")
    /\ stack # <<>>
    /\ Top(stack) = Item(input_field("Elevation"), <<"Le">>)

\* some caster has at least one active spell of the kind
HasSpell(spells, kind) == \E c \in casts(spells) : c[2] = kind

\* C33 as the specification implies it: contains(kind) is true exactly when
\* some caster has at least one active spell of the kind
C33_AsStated ==
    \A kind \in VectorOutputFieldKind :
        contains(active_spells, kind) <=> HasSpell(active_spells, kind)

\* C33 (amended): an active spell of a kind makes contains(kind) true, a
\* dispel leaves contains(kind) true even when it removes the only spell of
\* the kind, and contains(kind) becomes false again only in a world update
C33_ContainsIsKeyPresence ==
    [][/\ \A kind \in VectorOutputFieldKind :
             HasSpell(active_spells', kind) => contains(active_spells', kind)
       /\ \A kind \in VectorOutputFieldKind, i \in 0..MaxWords :
             Dispel(kind, i) => contains(active_spells', kind)
       /\ \A kind \in VectorOutputFieldKind :
             contains(active_spells, kind) /\ ~contains(active_spells', kind)
                => last' = Event("update", "Ok")]_vars

\* the only spell of a kind has been dispelled and the kind is still contained
C33_Witness ==
    /\ last = Event("dispel", "Ok")
    /\ contains(active_spells, "Gravity")
    /\ ~HasSpell(active_spells, "Gravity")

\* the entries of a sequence
Entries(seq) == { seq[n] : n \in DOMAIN seq }

\* C34: the index handed to the removal is smaller than the number of the
\* player's active spells of the kind at that moment, the removal takes out
\* exactly the spell whose words were clicked and leaves every other spell of
\* every caster in place, and a kind that has been handled is not handled
\* again in the frame, so at most one spell per kind is removed per frame
C34_DispelInRange ==
    [][/\ \A click \in -1..MaxWords :
             FieldsWordsClick(click) =>
                LET kind == Head(frame.todo)
                    list == spells_of(active_spells, "Player", kind)
                    i == to_dispel(player_spell_words(active_spells, kind), click)
                IN /\ i < Len(list)
                   /\ kind \notin Entries(frame'.todo)
                   /\ IF click \in 0..(Len(list) - 1)
                      THEN /\ spells_of(active_spells', "Player", kind)
                                 = vec_remove(list, click)
                           /\ Len(spells_of(active_spells', "Player", kind)) = Len(list) - 1
                           /\ \A id \in PersonIds, k \in VectorOutputFieldKind :
                                 <<id, k>> # <<"Player", kind>> =>
                                    spells_of(active_spells', id, k)
                                       = spells_of(active_spells, id, k)
                      ELSE active_spells' = active_spells
       /\ frame.pc # "top_ui" =>
             \/ frame'.todo = frame.todo
             \/ frame.todo # <<>> /\ frame'.todo = Tail(frame.todo)
       /\ \A m, n \in DOMAIN frame'.todo : m # n => frame'.todo[m] # frame'.todo[n]]_vars

\* the second of the player's two spells was dispelled and the first is kept
C34_Witness ==
    /\ last = Event("dispel", "Ok")
    /\ Len(spells_of(active_spells, "Player", "Gravity")) = 1
    /\ spells_of(active_spells, "Player", "Gravity")[1].words = <<"Kova">>

\* the caster ids that are keys of the registry
Casters(spells) == DOMAIN spells.scalars \cup DOMAIN spells.vectors

\* C35: every caster id that is a key of the registry is the player or an
\* NPC of the world, so the person that the aggregation of an output field
\* looks up for each key exists
C35_CastersExist ==
    /\ Casters(active_spells) \subseteq PersonIds
    /\ Casters(active_spells) \subseteq DOMAIN mana

\* an update has aggregated the Force output over a registry that holds
\* spells of the player and of an NPC
C35_Witness ==
    /\ last = Event("update", "Ok")
    /\ Casters(active_spells) = PersonIds
    /\ spells_of(active_spells, "Player", "Gravity") # <<>>
    /\ spells_of(active_spells, "Npc1", "Force") # <<>>
    /\ forces["Ball"] # ZERO

\* the person holds at least one active spell
Holds(spells, id) == \E k \in VectorOutputFieldKind : spells_of(spells, id, k) # <<>>

\* C36: in a world update the mana of a caster regenerates exactly when the
\* caster holds no active spell once the clearing of that update is done: a
\* caster who can cast and holds a spell keeps the mana that the work left,
\* and a caster who cannot cast is cleared and regenerates in the same update
C36_RegenAfterClearing ==
    [][\A work \in 0..1, id \in PersonIds :
          Tick(work) =>
             LET m1 == do_work(mana[id], work)
             IN /\ mana'[id] = IF Holds(active_spells', id) THEN m1 ELSE regen_mana(m1)
                /\ can_cast(m1) /\ Holds(active_spells, id) => mana'[id] = m1
                /\ ~can_cast(m1) =>
                      /\ ~Holds(active_spells', id)
                      /\ mana'[id] = regen_mana(m1)
                      /\ mana'[id] > m1]_vars

\* an update after which the player, who holds a spell, is below full mana
\* and the NPC, who holds none, has its mana back at the full amount
C36_Witness ==
    /\ last = Event("update", "Ok")
    /\ Holds(active_spells, "Player")
    /\ mana["Player"] < MaxMana
    /\ ~Holds(active_spells, "Npc1")
    /\ mana["Npc1"] = MaxMana

\* C37: in every frame that starts paused the ticker is not increased (it
\* keeps its value through the whole frame, also when the game is resumed
\* within the frame) and no world update runs
C37_PausedFrameStandsStill ==
    [][frame'.started_paused =>
          /\ frame'.ticker = frame.ticker
          /\ frame'.ticker < Dt
          /\ frame'.ticks = 0
          /\ "update" \notin Entries(frame'.log)
          /\ ~UpdateLoop
          /\ mana' = mana]_vars

\* a frame that started paused has ended, resumed on its way, with time held
\* in the ticker and a spell of the player in the registry
C37_Witness ==
    /\ frame.started_paused
    /\ ~frame.paused
    /\ frame.pc = "top_ui"
    /\ frame.ticker = 1
    /\ Holds(active_spells, "Player")

\* C38: the etching of a stone is offered only when the stack is non-empty;
\* it stores the word sequence of the stack in the stone, leaves the stack
\* empty and the registry unchanged, and the replay of the stone on the
\* empty stack succeeds and rebuilds the stack that was etched, which is
\* what a cast of that stone on the empty stack persists
C38_EtchThenCast ==
    [][\A i \in DOMAIN conduits :
          /\ ConduitEtch(i) =>
                /\ stack # <<>>
                /\ conduits'[i] = stack_words(stack)
                /\ \A j \in DOMAIN conduits : j # i => conduits'[j] = conduits[j]
                /\ stack' = <<>>
                /\ active_spells' = active_spells
                /\ replay(stack', conduits'[i]).res = "Ok"
                /\ conduit_stack(stack', conduits'[i]) = stack
          /\ ConduitCast(i) /\ stack = <<>> /\ last = Event("etch", "Ok") =>
                /\ stack_words(stack') = conduits[i]
                /\ replay(<<>>, stack_words(stack')).stack = stack'
                /\ active_spells' = active_spells]_vars

\* a stack of two items was etched and the cast of the stone has rebuilt it
C38_Witness ==
    /\ last = Event("cast", "Ok")
    /\ Len(stack) = 2
    /\ \E i \in DOMAIN conduits :
          /\ conduits[i] = stack_words(stack)
          /\ conduits[i] \notin StoredWords

====
